---- MODULE Spec2Model ----
(***************************************************************************)
(* Model of the gh_pr_comments collector: the typed backend (fetcher.py),  *)
(* the CLI backend (gh_cli_fetcher.py), the date filter (models.py) and    *)
(* the report loop of main (cli.py).                                       *)
(*                                                                         *)
(* Time.  An upstream timestamp is an instant, a natural number of ticks.  *)
(* The typed backend sees it as a datetime (the instant), the CLI backend  *)
(* as the ISO-8601 text of the JSON answer.  The text is modelled as the   *)
(* pair <<day, tick-in-day>> ("YYYY-MM-DD" and "Thh:mm:ss"); texts are     *)
(* compared as Python compares strings, position by position.  A missing  *)
(* timestamp is None for the typed backend and "" for the CLI backend.     *)
(***************************************************************************)
EXTENDS Integers, Sequences, FiniteSets, TLC

\* ------------------------------------------------------------------ bounds
MaxDay == 1
MaxItems == 2
MaxListDay == 2
MaxPRs == 4
MaxRepos == 3

\* ------------------------------------------------------- values and domains
NoUser == ""
NoTime == -1
NoDate == -1
EmptyStr == << >>

\* an instant counts half days: two instants to the calendar day
TicksPerDay == 1 + 1
Days == 0..MaxDay
Times == 0..((MaxDay + 1) * TicksPerDay - 1)

\* ----------------------------------------------------------------- models.py
\* datetime.date(): the calendar day of an instant
DateOf(dt) ==
    dt \div TicksPerDay

\* datetime.isoformat(): the text of an instant
IsoFormat(dt) ==
    << dt \div TicksPerDay, dt % TicksPerDay >>

\* datetime.fromisoformat(text.replace("Z", "+00:00"))
FromIsoFormat(s) ==
    s[1] * TicksPerDay + s[2]

\* text[:10], then date.fromisoformat: the day a timestamp text names
DateOfText(s) ==
    s[1]

\* the JSON text of an upstream timestamp ("" when it is missing)
JsonTime(t) ==
    IF t = NoTime THEN EmptyStr ELSE IsoFormat(t)

\* Python's < on str, position by position, a proper prefix being smaller
RECURSIVE StrLess(_, _)
StrLess(a, b) ==
    IF b = << >> THEN FALSE
    ELSE IF a = << >> THEN TRUE
    ELSE IF Head(a) # Head(b) THEN Head(a) < Head(b)
    ELSE StrLess(Tail(a), Tail(b))

DateFilter(since, until) ==
    [since |-> since, until |-> until]

\* DateFilter.contains
ContainsSinceIgnored(date_filter, dt) ==
    IF dt = NoTime THEN TRUE
    ELSE IF date_filter.until # NoDate /\ DateOf(dt) > date_filter.until THEN FALSE
    ELSE TRUE

ContainsUntilIgnored(date_filter, dt) ==
    IF dt = NoTime THEN TRUE
    ELSE IF date_filter.since # NoDate /\ DateOf(dt) < date_filter.since THEN FALSE
    ELSE TRUE

Contains(date_filter, dt) ==
    IF dt = NoTime THEN TRUE
    ELSE IF date_filter.since # NoDate /\ DateOf(dt) < date_filter.since THEN FALSE
    ELSE IF date_filter.until # NoDate /\ DateOf(dt) > date_filter.until THEN FALSE
    ELSE TRUE

\* PREvent
Event(type, date, person) ==
    [type |-> type, date |-> date, person |-> person]

\* list.sort(key=lambda e: e["date"]): stable, ascending by the date text
InsertByDateBeforeTies(sorted, e) ==
    LET n == Cardinality({i \in 1..Len(sorted) : StrLess(sorted[i].date, e.date)})
    IN  SubSeq(sorted, 1, n) \o << e >> \o SubSeq(sorted, n + 1, Len(sorted))

InsertByDate(sorted, e) ==
    LET n == Cardinality({i \in 1..Len(sorted) : ~StrLess(e.date, sorted[i].date)})
    IN  SubSeq(sorted, 1, n) \o << e >> \o SubSeq(sorted, n + 1, Len(sorted))

RECURSIVE SortedByDate(_)
SortedByDate(events) ==
    IF events = << >> THEN << >>
    ELSE InsertByDate(SortedByDate(SubSeq(events, 1, Len(events) - 1)),
                      events[Len(events)])

NotSorted(events) ==
    events

SortByDate(events) ==
    SortedByDate(events)

\* concatenation of the event lists a loop appends, item by item
RECURSIVE Flatten(_)
Flatten(lists) ==
    IF lists = << >> THEN << >>
    ELSE Head(lists) \o Flatten(Tail(lists))

\* ------------------------------------------------------------ upstream data
(* One pull request as GitHub holds it.  state is "open" or "closed";       *)
(* merged tells a closed pull request that was merged.                      *)
PullRequest(number, author, created, state, merged, merged_by, merged_at, closed_at, review_comments, issue_comments, reviews) ==
    [number |-> number, author |-> author, created |-> created, state |-> state,
     merged |-> merged, merged_by |-> merged_by, merged_at |-> merged_at,
     closed_at |-> closed_at, review_comments |-> review_comments,
     issue_comments |-> issue_comments, reviews |-> reviews]

Comment(user, at) ==
    [user |-> user, at |-> at]

Review(user, at, state, body) ==
    [user |-> user, at |-> at, state |-> state, body |-> body]

Returned(events) ==
    [raised |-> "none", events |-> events]

Raised(exception) ==
    [raised |-> exception, events |-> << >>]

\* the call has not been made yet
Pending ==
    [raised |-> "pending", events |-> << >>]

\* ---------------------------------------------------- fetcher.py (typed)
\* the created event of fetch_pr_events
CreatedEventsUnguarded(pr) ==
    << Event("created", IsoFormat(pr.created), pr.author) >>

CreatedEvents(pr) ==
    IF pr.author # NoUser
    THEN << Event("created", IsoFormat(pr.created), pr.author) >>
    ELSE << >>

\* one iteration of the review-comment or issue-comment loop
CommentEvents(date_filter, comment) ==
    IF comment.user # NoUser /\ Contains(date_filter, comment.at)
    THEN << Event("comment", IsoFormat(comment.at), comment.user) >>
    ELSE << >>

\* one iteration of the review loop
ReviewEvents(date_filter, review) ==
    IF review.user # NoUser /\ review.body /\ Contains(date_filter, review.at)
    THEN << Event("comment", IsoFormat(review.at), review.user) >>
    ELSE << >>

\* the merged or closed event of fetch_pr_events
TerminalEvents(pr) ==
    IF pr.state = "closed"
    THEN IF pr.merged /\ pr.merged_by # NoUser
         THEN << Event("merged",
                       IF pr.merged_at # NoTime THEN IsoFormat(pr.merged_at)
                       ELSE IsoFormat(pr.closed_at),
                       pr.merged_by) >>
         ELSE IF pr.closed_at # NoTime
         THEN << Event("closed", IsoFormat(pr.closed_at),
                       IF pr.author # NoUser THEN pr.author ELSE "unknown") >>
         ELSE << >>
    ELSE << >>

\* None.isoformat(): an item without a timestamp passes the filter, and
\* formatting its date raises AttributeError
CommentRaises(date_filter, comment) ==
    comment.user # NoUser /\ Contains(date_filter, comment.at) /\ comment.at = NoTime

ReviewRaises(date_filter, review) ==
    /\ review.user # NoUser /\ review.body
    /\ Contains(date_filter, review.at) /\ review.at = NoTime

TerminalRaises(pr) ==
    /\ pr.state = "closed" /\ pr.merged /\ pr.merged_by # NoUser
    /\ pr.merged_at = NoTime /\ pr.closed_at = NoTime

\* what the typed source loops append, in the order of the code
DiscoveredEvents(pr, date_filter) ==
    LET C(items) == Flatten([i \in DOMAIN items |-> CommentEvents(date_filter, items[i])])
        R(items) == Flatten([i \in DOMAIN items |-> ReviewEvents(date_filter, items[i])])
    IN  CreatedEvents(pr) \o C(pr.review_comments)
        \o C(pr.issue_comments) \o R(pr.reviews)
        \o TerminalEvents(pr)

\* fetch_pr_events.  fault names the source whose call raises
\* GithubException ("none": every call succeeds).  The sources are read in
\* the order of the code, so the first failure decides what is raised.
FetchPrEvents(pr, date_filter, fault) ==
    IF fault = "review_comments" THEN Raised("GithubException")
    ELSE IF \E i \in DOMAIN pr.review_comments :
               CommentRaises(date_filter, pr.review_comments[i])
    THEN Raised("AttributeError")
    ELSE IF fault = "issue_comments" THEN Raised("GithubException")
    ELSE IF \E i \in DOMAIN pr.issue_comments :
               CommentRaises(date_filter, pr.issue_comments[i])
    THEN Raised("AttributeError")
    ELSE IF fault = "reviews" THEN Raised("GithubException")
    ELSE IF \E i \in DOMAIN pr.reviews : ReviewRaises(date_filter, pr.reviews[i])
    THEN Raised("AttributeError")
    ELSE IF TerminalRaises(pr) THEN Raised("AttributeError")
    ELSE Returned(SortByDate(DiscoveredEvents(pr, date_filter)))

\* ------------------------------------------------ gh_cli_fetcher.py (CLI)
\* the JSON of one pull request in the answer of `gh pr list`
GhPr(pr) ==
    [number |-> pr.number,
     createdAt |-> JsonTime(pr.created),
     closedAt |-> JsonTime(pr.closed_at),
     mergedAt |-> JsonTime(pr.merged_at),
     state |-> IF pr.merged THEN "MERGED"
               ELSE IF pr.state = "closed" THEN "CLOSED" ELSE "OPEN",
     author |-> pr.author,
     mergedBy |-> pr.merged_by]

\* the JSON of a comment and of a review in the answers of `gh api`
GhComment(comment) ==
    [user |-> comment.user, created_at |-> JsonTime(comment.at)]

GhReview(review) ==
    [user |-> review.user, submitted_at |-> JsonTime(review.at),
     state |-> review.state, body |-> review.body]

\* fetch_pr_comments_gh, fetch_pr_issue_comments_gh, fetch_pr_reviews_gh:
\* the parsed list, or [] when the gh command failed
FetchPrCommentsGhUnfailing(pr, fault) ==
    [i \in DOMAIN pr.review_comments |-> GhComment(pr.review_comments[i])]

FetchPrCommentsGh(pr, fault) ==
    IF fault = "review_comments" THEN << >>
    ELSE [i \in DOMAIN pr.review_comments |-> GhComment(pr.review_comments[i])]

FetchPrIssueCommentsGh(pr, fault) ==
    IF fault = "issue_comments" THEN << >>
    ELSE [i \in DOMAIN pr.issue_comments |-> GhComment(pr.issue_comments[i])]

FetchPrReviewsGh(pr, fault) ==
    IF fault = "reviews" THEN << >>
    ELSE [i \in DOMAIN pr.reviews |-> GhReview(pr.reviews[i])]

CreatedEventsGh(gh_pr) ==
    IF gh_pr.author # NoUser
    THEN << Event("created", gh_pr.createdAt, gh_pr.author) >>
    ELSE << >>

CommentEventsGh(date_filter, comment) ==
    IF comment.user # NoUser /\ comment.created_at # EmptyStr
    THEN IF Contains(date_filter, FromIsoFormat(comment.created_at))
         THEN << Event("comment", comment.created_at, comment.user) >>
         ELSE << >>
    ELSE << >>

\* one iteration of the review loop of fetch_pr_events_gh
ReviewEventsGhAllFiltered(date_filter, review) ==
    IF review.user = NoUser \/ review.submitted_at = EmptyStr THEN << >>
    ELSE IF ~Contains(date_filter, FromIsoFormat(review.submitted_at)) THEN << >>
    ELSE (IF review.state = "APPROVED"
          THEN << Event("approved", review.submitted_at, review.user) >>
          ELSE IF review.state = "CHANGES_REQUESTED"
          THEN << Event("changes_requested", review.submitted_at, review.user) >>
          ELSE << >>)
         \o
         (IF review.body
          THEN << Event("comment", review.submitted_at, review.user) >>
          ELSE << >>)

ReviewEventsGh(date_filter, review) ==
    IF review.user = NoUser \/ review.submitted_at = EmptyStr THEN << >>
    ELSE (IF review.state = "APPROVED"
          THEN << Event("approved", review.submitted_at, review.user) >>
          ELSE IF review.state = "CHANGES_REQUESTED"
          THEN << Event("changes_requested", review.submitted_at, review.user) >>
          ELSE << >>)
         \o
         (IF review.body /\ Contains(date_filter, FromIsoFormat(review.submitted_at))
          THEN << Event("comment", review.submitted_at, review.user) >>
          ELSE << >>)

TerminalEventsGhAuthorOnly(gh_pr) ==
    IF gh_pr.state = "MERGED"
    THEN IF gh_pr.mergedBy # NoUser /\ gh_pr.mergedAt # EmptyStr
         THEN << Event("merged", gh_pr.mergedAt, gh_pr.mergedBy) >>
         ELSE << >>
    ELSE IF gh_pr.state = "CLOSED"
    THEN IF gh_pr.closedAt # EmptyStr
         THEN << Event("closed", gh_pr.closedAt, gh_pr.author) >>
         ELSE << >>
    ELSE << >>

TerminalEventsGh(gh_pr) ==
    IF gh_pr.state = "MERGED"
    THEN IF gh_pr.mergedBy # NoUser /\ gh_pr.mergedAt # EmptyStr
         THEN << Event("merged", gh_pr.mergedAt, gh_pr.mergedBy) >>
         ELSE << >>
    ELSE IF gh_pr.state = "CLOSED"
    THEN IF gh_pr.closedAt # EmptyStr
         THEN << Event("closed", gh_pr.closedAt,
                       IF gh_pr.author # NoUser THEN gh_pr.author ELSE "unknown") >>
         ELSE << >>
    ELSE << >>

DiscoveredEventsGh(pr, date_filter, fault) ==
    LET C(items) == Flatten([i \in DOMAIN items |-> CommentEventsGh(date_filter, items[i])])
        R(items) == Flatten([i \in DOMAIN items |-> ReviewEventsGh(date_filter, items[i])])
    IN  CreatedEventsGh(GhPr(pr)) \o C(FetchPrCommentsGh(pr, fault))
        \o C(FetchPrIssueCommentsGh(pr, fault))
        \o R(FetchPrReviewsGh(pr, fault))
        \o TerminalEventsGh(GhPr(pr))

\* fetch_pr_events_gh
FetchPrEventsGh(pr, date_filter, fault) ==
    Returned(SortByDate(DiscoveredEventsGh(pr, date_filter, fault)))

\* `if pr_record["events"]`: the pipelines keep a record that has events
HasEvents(pr_record) ==
    pr_record.events # << >>

\* ------------------------------------------------------ listing pull requests
\* one iteration of the loop of fetch_repo_prs: "continue", "break" or "yield"
RepoPrsStepNeverBreaks(date_filter, pull) ==
    IF date_filter.until # NoDate /\ DateOf(pull.created) > date_filter.until
    THEN "continue"
    ELSE IF date_filter.since # NoDate /\ DateOf(pull.created) < date_filter.since
    THEN "continue"
    ELSE "yield"

RepoPrsStep(date_filter, pull) ==
    IF date_filter.until # NoDate /\ DateOf(pull.created) > date_filter.until
    THEN "continue"
    ELSE IF date_filter.since # NoDate /\ DateOf(pull.created) < date_filter.since
    THEN "break"
    ELSE "yield"

RepoPrsStepGhSkipsUndated(date_filter, gh_pull) ==
    IF gh_pull.createdAt # EmptyStr
    THEN IF date_filter.until # NoDate /\ DateOfText(gh_pull.createdAt) > date_filter.until
         THEN "continue"
         ELSE IF date_filter.since # NoDate
                 /\ DateOfText(gh_pull.createdAt) < date_filter.since
         THEN "continue"
         ELSE "yield"
    ELSE "continue"

\* one iteration of the loop of fetch_repo_prs_gh over the parsed JSON list
RepoPrsStepGh(date_filter, gh_pull) ==
    IF gh_pull.createdAt # EmptyStr
    THEN IF date_filter.until # NoDate /\ DateOfText(gh_pull.createdAt) > date_filter.until
         THEN "continue"
         ELSE IF date_filter.since # NoDate
                 /\ DateOfText(gh_pull.createdAt) < date_filter.since
         THEN "continue"
         ELSE "yield"
    ELSE "yield"

\* a generator over an upstream list: pos items were taken from upstream,
\* yielded holds the numbers of the pull requests handed to the consumer
Listing(pos, yielded, done) ==
    [pos |-> pos, yielded |-> yielded, done |-> done]

\* ------------------------------------------------------- rate-limit retries
\* the default of the parameter max_retries of _run_gh_command
DefaultMaxRetries == 3

\* max_retries of fetch_pr_events
max_retries == 3

Min(a, b) == IF a < b THEN a ELSE b

\* wait_seconds of _run_gh_command and of _handle_rate_limit
WaitSecondsGh(attempt) ==
    Min(60 * (2 ^ attempt), 300)

WaitSeconds(attempt) ==
    Min(60 * (2 ^ attempt), 900)

\* One attempt of a transport call as upstream answers it.  kind is "ok",
\* "rate_limit" (the rate-limit signal) or "error" (another failure); for the
\* gh command also "empty" (no output), "missing" (no gh executable) and
\* "bad_json" (output that is not JSON).  delivered counts the items a typed
\* source hands over before a failing attempt fails.
Attempt(kind, delivered) ==
    [kind |-> kind, delivered |-> delivered]

\* _run_gh_command with its loop at `attempt`: calls counts the runs of the gh
\* process, sleeps lists the seconds slept; status is "running", "returned"
\* (result "json" or "[]") or "raised" (GhCliError or RateLimitError)
GhRun(n, status) ==
    [max_retries |-> n, attempt |-> 0, calls |-> 0, sleeps |-> << >>,
     status |-> status, result |-> "none", raised |-> "none"]

GhReturns(run, result) ==
    [run EXCEPT !.status = "returned", !.result = result]

GhRaises(run, exception) ==
    [run EXCEPT !.status = "raised", !.raised = exception]

\* the retry of a rate-limited gh command
GhRetryNever(run) ==
    GhRaises(run, "RateLimitError")

GhRetry(run) ==
    IF run.attempt < run.max_retries - 1
    THEN [run EXCEPT !.sleeps = Append(@, WaitSecondsGh(run.attempt)), !.attempt = @ + 1]
    ELSE GhRaises(run, "RateLimitError")

\* one iteration of the loop of _run_gh_command (or its end), the gh process
\* answering with kind
RunGhStepRetrying(run, kind) ==
    IF run.attempt >= run.max_retries THEN GhReturns(run, "[]")
    ELSE LET called == [run EXCEPT !.calls = @ + 1]
         IN  CASE kind = "ok" -> GhReturns(called, "json")
               [] kind = "empty" -> GhReturns(called, "[]")
               [] OTHER -> GhRetry(called)

RunGhStepUnbounded(run, kind) ==
    LET called == [run EXCEPT !.calls = @ + 1]
    IN  CASE kind = "ok" -> GhReturns(called, "json")
          [] kind = "empty" -> GhReturns(called, "[]")
          [] kind = "rate_limit" ->
               [called EXCEPT !.sleeps = Append(@, WaitSecondsGh(run.attempt)),
                              !.attempt = @ + 1]
          [] OTHER -> GhRaises(called, "GhCliError")

RunGhStep(run, kind) ==
    IF run.attempt >= run.max_retries THEN GhReturns(run, "[]")
    ELSE LET called == [run EXCEPT !.calls = @ + 1]
         IN  CASE kind = "ok" -> GhReturns(called, "json")
               [] kind = "empty" -> GhReturns(called, "[]")
               [] kind = "rate_limit" -> GhRetry(called)
               [] OTHER -> GhRaises(called, "GhCliError")

\* _handle_rate_limit: what it raises, or the seconds it sleeps
HandleRateLimit(attempt, limit) ==
    IF attempt >= limit THEN [raised |-> "FetchError", sleep |-> 0]
    ELSE [raised |-> "none", sleep |-> WaitSeconds(attempt)]

\* the three retry loops of fetch_pr_events, in the order of the code
Sources == << "review_comments", "issue_comments", "reviews" >>

SourceItems(p, source) ==
    CASE source = "review_comments" -> p.review_comments
      [] source = "issue_comments" -> p.issue_comments
      [] OTHER -> p.reviews

\* what the body of a loop appends for the items it is handed
ReadEvents(date_filter, source, items) ==
    Flatten([i \in DOMAIN items |->
               IF source = "reviews" THEN ReviewEvents(date_filter, items[i])
               ELSE CommentEvents(date_filter, items[i])])

\* fetch_pr_events in its retry loops: source is the loop it is in (an index
\* of Sources), attempt the loop variable, calls the sources read so far,
\* sleeps the seconds slept, events the list built so far; status is
\* "running", "returned" or "raised"
TypedRun(events, status) ==
    [source |-> 1, attempt |-> 0, calls |-> << >>, sleeps |-> << >>,
     events |-> events, status |-> status, raised |-> "none"]

\* leaving a retry loop, by break or because range(max_retries) is used up
LeaveLoop(run) ==
    IF run.source = Len(Sources) THEN [run EXCEPT !.status = "returned"]
    ELSE [run EXCEPT !.source = @ + 1, !.attempt = 0]

\* One iteration of the retry loop the run is in, upstream answering the
\* read with answer: the items handed over before a failure have their
\* events appended already when the exception arrives.
SourceStep(run, p, date_filter, answer) ==
    LET source == Sources[run.source]
        items == SourceItems(p, source)
        handed == IF answer.kind = "ok" THEN items ELSE SubSeq(items, 1, answer.delivered)
        read == [run EXCEPT !.calls = Append(@, source),
                            !.events = @ \o ReadEvents(date_filter, source, handed)]
        h == HandleRateLimit(run.attempt, max_retries)
        slept == [read EXCEPT !.sleeps = Append(@, h.sleep), !.attempt = @ + 1]
    IN  CASE answer.kind = "ok" -> LeaveLoop(read)
          [] answer.kind = "rate_limit" ->
               IF h.raised # "none"
               THEN [read EXCEPT !.status = "raised", !.raised = h.raised]
               ELSE IF slept.attempt = max_retries THEN LeaveLoop(slept) ELSE slept
          [] OTHER -> [read EXCEPT !.status = "raised", !.raised = "GithubException"]

\* --------------------------------------------------------- the pipelines
NoFault == -1

\* One repository as GitHub holds it: its name, its pull requests (newest
\* first, each with the per-PR source whose call fails), list_fault (the
\* number of pull requests the listing delivers before it fails with a
\* transport error, NoFault when it does not fail), list_error (how it fails:
\* "rate_limit", the rate-limit signal at every attempt, or "error") and
\* whether the name passes the include/exclude patterns of the command line.
Repo(name, entries, list_fault, list_error, admitted) ==
    [name |-> name, pulls |-> entries, list_fault |-> list_fault,
     list_error |-> list_error, admitted |-> admitted]

\* what the listing of the pull requests raises when it fails: fetch_repo_prs
\* does not retry; _run_gh_command has used up its retries
ListingRaises(backend, list_error) ==
    IF backend = "gh"
    THEN (IF list_error = "rate_limit" THEN "RateLimitError" ELSE "GhCliError")
    ELSE (IF list_error = "rate_limit" THEN "RateLimitExceededException"
          ELSE "GithubException")

Entry(p, fault) ==
    [pr |-> p, fault |-> fault]

\* fetch_pr_record and fetch_pr_record_gh: the record, or what was raised
\* (the title, copied from upstream, is left out)
FetchPrRecord(p, date_filter, fault) ==
    LET r == FetchPrEvents(p, date_filter, fault)
    IN  [raised |-> r.raised, number |-> p.number, events |-> r.events]

FetchPrRecordGh(p, date_filter, fault) ==
    LET r == FetchPrEventsGh(p, date_filter, fault)
    IN  [raised |-> r.raised, number |-> p.number, events |-> r.events]

PRRecord(r) ==
    [number |-> r.number, events |-> r.events]

Collected(prs) ==
    [raised |-> "none", prs |-> prs]

Failed(exception) ==
    [raised |-> exception, prs |-> << >>]

RECURSIVE CollectPrsKeepsPartial(_, _, _, _)
CollectPrsKeepsPartial(repo, date_filter, i, prs) ==
    IF repo.list_fault = i THEN Collected(prs)
    ELSE IF i = Len(repo.pulls) THEN Collected(prs)
    ELSE LET entry == repo.pulls[i + 1]
             step == RepoPrsStep(date_filter, entry.pr)
             r == FetchPrRecord(entry.pr, date_filter, entry.fault)
         IN  IF step = "break" THEN Collected(prs)
             ELSE IF step = "continue"
             THEN CollectPrsKeepsPartial(repo, date_filter, i + 1, prs)
             ELSE IF r.raised # "none" THEN Collected(prs)
             ELSE CollectPrsKeepsPartial(repo, date_filter, i + 1,
                             IF HasEvents(r) THEN Append(prs, PRRecord(r)) ELSE prs)

\* the try block of fetch_organization_data for one repository: the records
\* of the pull requests fetch_repo_prs yields, from the i-th upstream pull
\* request on, appended to prs
RECURSIVE CollectPrs(_, _, _, _)
CollectPrs(repo, date_filter, i, prs) ==
    IF repo.list_fault = i THEN Failed(ListingRaises("typed", repo.list_error))
    ELSE IF i = Len(repo.pulls) THEN Collected(prs)
    ELSE LET entry == repo.pulls[i + 1]
             step == RepoPrsStep(date_filter, entry.pr)
             r == FetchPrRecord(entry.pr, date_filter, entry.fault)
         IN  IF step = "break" THEN Collected(prs)
             ELSE IF step = "continue" THEN CollectPrs(repo, date_filter, i + 1, prs)
             ELSE IF r.raised # "none" THEN Failed(r.raised)
             ELSE CollectPrs(repo, date_filter, i + 1,
                             IF HasEvents(r) THEN Append(prs, PRRecord(r)) ELSE prs)

\* the try block of fetch_organization_data_gh for one repository
RECURSIVE CollectPrsGh(_, _, _, _)
CollectPrsGh(repo, date_filter, i, prs) ==
    IF repo.list_fault # NoFault THEN Failed(ListingRaises("gh", repo.list_error))
    ELSE IF i = Len(repo.pulls) THEN Collected(prs)
    ELSE LET entry == repo.pulls[i + 1]
             step == RepoPrsStepGh(date_filter, GhPr(entry.pr))
             r == FetchPrRecordGh(entry.pr, date_filter, entry.fault)
         IN  IF step = "continue" THEN CollectPrsGh(repo, date_filter, i + 1, prs)
             ELSE CollectPrsGh(repo, date_filter, i + 1,
                               IF HasEvents(r) THEN Append(prs, PRRecord(r)) ELSE prs)

\* `except GithubException` and `except GhCliError` around the try block;
\* RateLimitExceededException is a GithubException, RateLimitError a GhCliError
CaughtNever(backend, exception) ==
    FALSE

Caught(backend, exception) ==
    \/ backend = "typed" /\ exception \in {"GithubException", "RateLimitExceededException"}
    \/ backend = "gh" /\ exception \in {"GhCliError", "RateLimitError"}

\* `if prs:` before the yield
YieldsAlways(prs) ==
    TRUE

Yields(prs) ==
    prs # << >>

\* the transport work of one iteration: the listings of pull requests
\* started and the pull requests whose events were fetched
Calls(listings, records) ==
    [listings |-> listings, records |-> records]

NoCalls == Calls(0, 0)

\* the pull requests fetch_pr_record is called for in the try block of
\* fetch_organization_data, from the i-th upstream pull request on
RECURSIVE FetchedPrs(_, _, _)
FetchedPrs(repo, date_filter, i) ==
    IF repo.list_fault = i \/ i = Len(repo.pulls) THEN 0
    ELSE LET entry == repo.pulls[i + 1]
             step == RepoPrsStep(date_filter, entry.pr)
             r == FetchPrRecord(entry.pr, date_filter, entry.fault)
         IN  IF step = "break" THEN 0
             ELSE IF step = "continue" THEN FetchedPrs(repo, date_filter, i + 1)
             ELSE IF r.raised # "none" THEN 1
             ELSE 1 + FetchedPrs(repo, date_filter, i + 1)

\* the pull requests fetch_pr_record_gh is called for
FetchedPrsGh(repo, date_filter) ==
    IF repo.list_fault # NoFault THEN 0
    ELSE Cardinality({i \in DOMAIN repo.pulls :
                        RepoPrsStepGh(date_filter, GhPr(repo.pulls[i].pr)) = "yield"})

\* One iteration of the repository loop.  use_filter: a repo_filter was given
\* (only fetch_organization_data_gh takes one).  The outcome is "filtered",
\* "error" (caught: the loop continues), "empty", "yield" or "raise" (the
\* exception leaves the generator).
ProcessRepoUnfiltered(backend, use_filter, repo, date_filter) ==
    LET c == IF backend = "gh" THEN CollectPrsGh(repo, date_filter, 0, << >>)
             ELSE CollectPrs(repo, date_filter, 0, << >>)
        calls == Calls(1, IF backend = "gh" THEN FetchedPrsGh(repo, date_filter)
                          ELSE FetchedPrs(repo, date_filter, 0))
    IN  IF c.raised # "none"
        THEN [kind |-> IF Caught(backend, c.raised) THEN "error" ELSE "raise",
              prs |-> << >>, raised |-> c.raised, calls |-> calls]
        ELSE [kind |-> IF Yields(c.prs) THEN "yield" ELSE "empty",
              prs |-> c.prs, raised |-> "none", calls |-> calls]

ProcessRepo(backend, use_filter, repo, date_filter) ==
    IF backend = "gh" /\ use_filter /\ ~repo.admitted
    THEN [kind |-> "filtered", prs |-> << >>, raised |-> "none", calls |-> NoCalls]
    ELSE LET c == IF backend = "gh" THEN CollectPrsGh(repo, date_filter, 0, << >>)
                  ELSE CollectPrs(repo, date_filter, 0, << >>)
             calls == Calls(1, IF backend = "gh" THEN FetchedPrsGh(repo, date_filter)
                               ELSE FetchedPrs(repo, date_filter, 0))
         IN  IF c.raised # "none"
             THEN [kind |-> IF Caught(backend, c.raised) THEN "error" ELSE "raise",
                   prs |-> << >>, raised |-> c.raised, calls |-> calls]
             ELSE [kind |-> IF Yields(c.prs) THEN "yield" ELSE "empty",
                   prs |-> c.prs, raised |-> "none", calls |-> calls]

\* ------------------------------------------------------- cli.py: the filters
\* fnmatch.fnmatch on a POSIX system: the whole name against the pattern, "*"
\* for any run of characters, "?" for one character, any other character for
\* itself (a name and a pattern are sequences of characters; character
\* classes "[...]" are not modelled)
RECURSIVE Fnmatch(_, _)
Fnmatch(name, pat) ==
    IF pat = << >> THEN name = << >>
    ELSE IF Head(pat) = "*"
    THEN Fnmatch(name, Tail(pat)) \/ (name # << >> /\ Fnmatch(Tail(name), pat))
    ELSE IF name = << >> THEN FALSE
    ELSE IF Head(pat) = "?" THEN Fnmatch(Tail(name), Tail(pat))
    ELSE Head(pat) = Head(name) /\ Fnmatch(Tail(name), Tail(pat))

\* should_process_repo of main
ShouldProcessRepoIncludeWins(include_patterns, exclude_patterns, repo_name) ==
    IF include_patterns # << >>
    THEN \E i \in DOMAIN include_patterns : Fnmatch(repo_name, include_patterns[i])
    ELSE ~\E i \in DOMAIN exclude_patterns : Fnmatch(repo_name, exclude_patterns[i])

ShouldProcessRepo(include_patterns, exclude_patterns, repo_name) ==
    IF include_patterns # << >>
       /\ ~\E i \in DOMAIN include_patterns : Fnmatch(repo_name, include_patterns[i])
    THEN FALSE
    ELSE IF exclude_patterns # << >>
            /\ \E i \in DOMAIN exclude_patterns : Fnmatch(repo_name, exclude_patterns[i])
    THEN FALSE
    ELSE TRUE

\* ------------------------------------------------------------------ state
VARIABLES
    date_filter,    \* the DateFilter of the run
    pr,             \* the upstream pull request handed to fetch_pr_events
    typed_result,   \* what fetch_pr_events returned or raised ("pending" before)
    gh_result,      \* what fetch_pr_events_gh returned ("pending" before)
    pulls,          \* the upstream pull-request list of the repository
    typed_listing,  \* the generator fetch_repo_prs
    gh_listing,     \* the generator fetch_repo_prs_gh
    backend,        \* "typed" (fetch_organization_data) or "gh" (..._gh)
    caller,         \* who drives the pipeline: "main" (cli.main) or "list"
    pc,             \* "start", "next" (the generator runs on), "yielded", "exited";
                    \* before them "credentials", "authenticate", "fetch"
    pos,            \* the number of repositories taken from fetch_org_repos
    repo,           \* the repository of the last iteration of the repository loop
    outcome,        \* the outcome of that iteration
    yielded,        \* the (repo_name, prs) pairs the pipeline has yielded
    errors,         \* the names of the repositories skipped for a transport error
    report,         \* report["repositories"] of main
    file,           \* the output file
    interrupted,    \* the flag handle_interrupt sets
    exit,           \* how the run ended
    exhausted,      \* the retries of a rate-limited call were used up in this run
    signal,         \* where the run was when SIGINT arrived
    fault,          \* the per-PR source whose transport call fails ("none": none)
    plan,           \* what that call does, attempt after attempt
    gh_run,         \* _run_gh_command: its loop, calls and sleeps
    typed_run,      \* fetch_pr_events: its retry loops, events and sleeps
    org_error,      \* how listing the organization fails ("none": it does not)
    now,            \* what datetime.now() reads
    generated_at,   \* report["generated_at"] of main
    saved,          \* one stamp for every write of the output file
    options,        \* the credential options of the command line
    network,        \* the authentication and transport calls made so far
    include_patterns, \* --include-repo
    exclude_patterns, \* --ignore-repo
    repo_name,      \* the name handed to should_process_repo
    dt,             \* the timestamp handed to DateFilter.contains
    processed,      \* the call of should_process_repo and what it returned
    contained       \* the call of DateFilter.contains and what it returned

events_vars == << pr, typed_result, gh_result >>

listing_vars == << pulls, typed_listing, gh_listing >>

run_vars == << backend, caller, pc, pos, repo, outcome, yielded, errors, report, file,
               interrupted, exit, exhausted, signal, org_error, now, generated_at, saved >>

clock_vars == << now, generated_at, saved >>

retry_vars == << fault, plan, gh_run, typed_run >>

cli_vars == << options, network, include_patterns, exclude_patterns, repo_name, dt, processed,
               contained >>

vars == << date_filter, pr, typed_result, gh_result, pulls, typed_listing, gh_listing,
           backend, caller, pc, pos, repo, outcome, yielded, errors, report, file,
           interrupted, exit, exhausted, signal, fault, plan, gh_run, typed_run,
           org_error, now, generated_at, saved, options, network,
           include_patterns, exclude_patterns, repo_name, dt, processed,
               contained >>

\* the parts of the state a specification does not use stay as they are
NoPullRequest == PullRequest(0, NoUser, 0, "open", FALSE, NoUser, NoTime, NoTime,
                             << >>, << >>, << >>)

EventsIdle ==
    pr = NoPullRequest /\ typed_result = Pending /\ gh_result = Pending

ListingIdle ==
    /\ pulls = << >>
    /\ typed_listing = Listing(0, << >>, TRUE)
    /\ gh_listing = Listing(0, << >>, TRUE)

NoRepo == Repo(0, << >>, NoFault, "none", TRUE)

NoOutcome == [kind |-> "none", prs |-> << >>, raised |-> "none", calls |-> NoCalls]

NotExited == [code |-> -1, uncaught |-> "none"]

Exit(code, uncaught) == [code |-> code, uncaught |-> uncaught]

NoFile == [written |-> FALSE, repositories |-> << >>]

WrittenEmpty(repositories) == [written |-> TRUE, repositories |-> << >>]

Written(repositories) == [written |-> TRUE, repositories |-> repositories]

\* no SIGINT so far; else the pc of the run, the repositories taken and the
\* pairs yielded when it arrived
NoSignal == [pc |-> "none", pos |-> 0, yielded |-> 0]

RunIdle ==
    /\ backend = "none" /\ caller = "none" /\ pc = "exited" /\ pos = 0
    /\ repo = NoRepo /\ outcome = NoOutcome /\ yielded = << >> /\ errors = {}
    /\ report = << >> /\ file = NoFile /\ interrupted = FALSE /\ exit = NotExited
    /\ exhausted = FALSE /\ signal = NoSignal
    /\ org_error = "none" /\ now = 0 /\ generated_at = 0 /\ saved = << >>

NoGhRun == GhRun(0, "idle")

NoTypedRun == TypedRun(<< >>, "idle")

RetryIdle ==
    fault = "none" /\ plan = << >> /\ gh_run = NoGhRun /\ typed_run = NoTypedRun

None == "None"

\* The credential options of main as the command line gives them (None: the
\* option is not given); --app-id and --installation-id are converted to int.
Options(use_gh_cli, token, app_id, private_key, installation_id) ==
    [use_gh_cli |-> use_gh_cli, token |-> token, app_id |-> app_id,
     private_key |-> private_key, installation_id |-> installation_id]

\* bool(value) of an option: None and the integer 0 are false
Truthy(value) ==
    value # None /\ value # "0"

\* has_app_auth = all([app_id, private_key, installation_id])
HasAppAuth(o) ==
    Truthy(o.app_id) /\ Truthy(o.private_key) /\ Truthy(o.installation_id)

\* any([app_id, private_key, installation_id])
AnyAppOption(o) ==
    Truthy(o.app_id) \/ Truthy(o.private_key) \/ Truthy(o.installation_id)

\* the credentials check of main: TRUE when main exits with code 1
RejectsCredentials(o) ==
    ~o.use_gh_cli /\ AnyAppOption(o) /\ ~HasAppAuth(o)

\* a call of a filter: not made in this run, about to be made, or answered
NotCalled == [status |-> "idle", value |-> FALSE]

Called == [status |-> "pending", value |-> FALSE]

Answered(value) == [status |-> "returned", value |-> value]

AuthIdle ==
    options = Options(FALSE, None, None, None, None) /\ network = << >>

FilterIdle ==
    /\ include_patterns = << >> /\ exclude_patterns = << >> /\ repo_name = << >>
    /\ dt = NoTime /\ processed = NotCalled /\ contained = NotCalled

CliIdle ==
    AuthIdle /\ FilterIdle

\* ------------------------------------------------- inputs of fetch_pr_events
Bounds == {NoDate} \cup Days

DateFilters == {DateFilter(s, u) : s \in Bounds, u \in Bounds}

\* a pull request is created at the first instant of a day; comments,
\* reviews, merges and closes are stamped at the second instant of a day
CreatedTimes == {d * TicksPerDay : d \in Days}

ActivityTimes == {d * TicksPerDay + 1 : d \in Days}

SeqsOfLen(S, n) == [1..n -> S]

CommentInputs ==
    {Comment("bob", t) : t \in ActivityTimes} \cup {Comment(NoUser, 1)}

ReviewStates == {"APPROVED", "CHANGES_REQUESTED", "COMMENTED"}

\* a review without a submission time is a pending review
ReviewInputs ==
    {Review("carol", t, s, b) : t \in ActivityTimes, s \in ReviewStates, b \in BOOLEAN}
    \cup {Review(NoUser, 1, "APPROVED", TRUE)}
    \cup {Review("carol", NoTime, "APPROVED", b) : b \in BOOLEAN}

\* the three sources of one pull request, MaxItems items in all at most
SourceInputs ==
    UNION { SeqsOfLen(CommentInputs, x[1]) \X SeqsOfLen(CommentInputs, x[2])
              \X SeqsOfLen(ReviewInputs, x[3]) :
            x \in {y \in (0..MaxItems) \X (0..MaxItems) \X (0..MaxItems) :
                     y[1] + y[2] + y[3] <= MaxItems} }

Authors == {NoUser, "alice"}

\* open pull requests with comments and reviews
ReviewedPullRequests ==
    { PullRequest(1, author, created, "open", FALSE, NoUser, NoTime, NoTime,
                  src[1], src[2], src[3]) :
      author \in Authors, created \in CreatedTimes, src \in SourceInputs }

\* closed pull requests, merged (by a known user or not, with a merge time or
\* without) or not, with one review comment at most
ClosedPullRequests ==
    { PullRequest(1, author, created, "closed", m[1], m[2], m[3], closed_at, rc, << >>, << >>) :
      author \in Authors, created \in CreatedTimes, closed_at \in ActivityTimes,
      m \in {<<FALSE, NoUser, NoTime>>}
             \cup ({TRUE} \X {NoUser, "dave"} \X (ActivityTimes \cup {NoTime})),
      rc \in {<< >>} \cup {<< Comment("bob", t) >> : t \in ActivityTimes} }

PullRequestInputs ==
    ReviewedPullRequests \cup ClosedPullRequests

\* ----------------------------------------- specification of fetch_pr_events
InitEvents ==
    /\ date_filter \in DateFilters
    /\ pr \in PullRequestInputs
    /\ typed_result = Pending
    /\ gh_result = Pending
    /\ ListingIdle
    /\ RunIdle
    /\ RetryIdle
    /\ CliIdle

CallFetchPrEvents ==
    /\ typed_result = Pending
    /\ typed_result' = FetchPrEvents(pr, date_filter, "none")
    /\ UNCHANGED << date_filter, pr, gh_result, listing_vars, run_vars, retry_vars, cli_vars >>

CallFetchPrEventsGh ==
    /\ typed_result # Pending
    /\ gh_result = Pending
    /\ gh_result' = FetchPrEventsGh(pr, date_filter, "none")
    /\ UNCHANGED << date_filter, pr, typed_result, listing_vars, run_vars, retry_vars, cli_vars >>

NextEvents ==
    \/ CallFetchPrEvents
    \/ CallFetchPrEventsGh

SpecEvents == InitEvents /\ [][NextEvents]_vars

\* ------------------------------ specification of fetch_repo_prs(_gh)
ListDays == 0..MaxListDay

ListFilters == {DateFilter(s, u) : s \in {NoDate} \cup ListDays, u \in {NoDate} \cup ListDays}

\* upstream lists in any order, numbered by position; the answer of
\* `gh pr list` may lack the createdAt of one pull request (has_createdAt)
PullLists ==
    UNION { { [i \in 1..n |-> [number |-> i, created |-> days[i] * TicksPerDay,
                               has_createdAt |-> i # u]] :
              days \in [1..n -> ListDays], u \in 0..n } : n \in 0..MaxPRs }

InitPrs ==
    /\ date_filter \in ListFilters
    /\ pulls \in PullLists
    /\ typed_listing = Listing(0, << >>, FALSE)
    /\ gh_listing = Listing(0, << >>, FALSE)
    /\ EventsIdle
    /\ RunIdle
    /\ RetryIdle
    /\ CliIdle

\* the consumer asks fetch_repo_prs for the next pull request: the generator
\* takes items from upstream until it yields one, breaks or runs out
\* (steps[i]: what the loop body does with the i-th pull request of list)
RECURSIVE Advance(_, _, _)
Advance(steps, list, listing) ==
    IF listing.pos = Len(list) THEN [listing EXCEPT !.done = TRUE]
    ELSE LET pull == list[listing.pos + 1]
             step == steps[listing.pos + 1]
             taken == [listing EXCEPT !.pos = @ + 1]
         IN  CASE step = "yield" -> [taken EXCEPT !.yielded = Append(@, pull.number)]
               [] step = "break" -> [taken EXCEPT !.done = TRUE]
               [] OTHER -> Advance(steps, list, taken)

NextOfFetchRepoPrs ==
    /\ ~typed_listing.done
    /\ typed_listing' =
         Advance([i \in DOMAIN pulls |-> RepoPrsStep(date_filter, pulls[i])],
                 pulls, typed_listing)
    /\ UNCHANGED << date_filter, events_vars, pulls, gh_listing, run_vars, retry_vars, cli_vars >>

\* fetch_repo_prs_gh has the whole list from one gh command (pos counts the
\* entries of the parsed list its loop has looked at)
NextOfFetchRepoPrsGh ==
    /\ ~gh_listing.done
    /\ gh_listing' =
         Advance([i \in DOMAIN pulls |->
                    RepoPrsStepGh(date_filter,
                                  [createdAt |-> IF pulls[i].has_createdAt
                                                 THEN JsonTime(pulls[i].created)
                                                 ELSE EmptyStr])],
                 pulls, gh_listing)
    /\ UNCHANGED << date_filter, events_vars, pulls, typed_listing, run_vars, retry_vars, cli_vars >>

NextPrs ==
    \/ NextOfFetchRepoPrs
    \/ NextOfFetchRepoPrsGh

SpecPrs == InitPrs /\ [][NextPrs]_vars

\* ------------------------------- specification of the pipelines and of main
\* The pull requests of the repositories the runs read: one without author or
\* activity, one authored on the last day, one authored on day 0 and commented
\* on that day.
QuietPr(number) ==
    PullRequest(number, NoUser, MaxDay * TicksPerDay, "open", FALSE, NoUser, NoTime, NoTime,
                << >>, << >>, << >>)

AuthoredPr(number) ==
    PullRequest(number, "alice", MaxDay * TicksPerDay, "open", FALSE, NoUser, NoTime, NoTime,
                << >>, << >>, << >>)

OldPr(number) ==
    PullRequest(number, "alice", 0, "open", FALSE, NoUser, NoTime, NoTime,
                << >>, << Comment("bob", 1) >>, << >>)

PullsInputs ==
    { << >>,
      << Entry(QuietPr(1), "none") >>,
      << Entry(AuthoredPr(1), "none") >>,
      << Entry(AuthoredPr(1), "reviews") >>,
      << Entry(OldPr(1), "none") >>,
      << Entry(AuthoredPr(2), "none"), Entry(QuietPr(1), "none") >>,
      << Entry(AuthoredPr(2), "none"), Entry(OldPr(1), "none") >>,
      << Entry(AuthoredPr(2), "none"), Entry(AuthoredPr(1), "issue_comments") >>,
      << Entry(OldPr(2), "none"), Entry(AuthoredPr(1), "none") >> }

\* a repository is named by its position in the organization's list
RepoInputs(name) ==
    { Repo(name, entries, NoFault, "none", TRUE) : entries \in PullsInputs }
    \cup { Repo(name, entries, list_fault, list_error, TRUE) :
             entries \in PullsInputs, list_fault \in {0, 1},
             list_error \in {"error", "rate_limit"} }
    \cup { Repo(name, << Entry(AuthoredPr(1), "none") >>, NoFault, "none", FALSE) }

RunFilters == { DateFilter(NoDate, NoDate), DateFilter(MaxDay, NoDate) }

\* One write of the output file by save_report: the time of the write and
\* the report json.dump writes, with the generated_at it carries, the
\* organization (--org), the date_range (date.isoformat() of --since and of
\* --until, the day part of a timestamp text; None for an option not given)
\* and the repositories stored so far.
Stamp(generated, at, repositories) ==
    [generated_at |-> generated, at |-> at,
     organization |-> "org",
     date_range |->
        [since |-> IF date_filter.since = NoDate THEN None ELSE << date_filter.since >>,
         until |-> IF date_filter.until = NoDate THEN None ELSE << date_filter.until >>],
     repositories |-> repositories]

Init ==
    /\ date_filter \in RunFilters
    /\ backend \in {"typed", "gh"}
    /\ caller \in {"main", "list"}
    /\ org_error \in {"none", "not_found", "error", "rate_limit"}
    /\ pc = "start"
    /\ pos = 0
    /\ repo = NoRepo
    /\ outcome = NoOutcome
    /\ yielded = << >>
    /\ errors = {}
    /\ report = << >>
    /\ file = NoFile
    /\ interrupted = FALSE
    /\ exit = NotExited
    /\ exhausted = FALSE
    /\ signal = NoSignal
    /\ now = 0
    /\ generated_at = 0
    /\ saved = << >>
    /\ EventsIdle
    /\ ListingIdle
    /\ RetryIdle
    /\ CliIdle

\* cli.main, typed backend: fetch_organization_data takes three parameters and
\* is called with four; the TypeError is not caught and ends the run.
MainCallsTyped ==
    /\ pc = "start" /\ caller = "main" /\ backend = "typed"
    /\ pc' = "exited"
    /\ exit' = Exit(1, "TypeError")
    /\ UNCHANGED << date_filter, events_vars, listing_vars, retry_vars, cli_vars, exhausted,
                    signal, org_error, clock_vars, backend, caller, pos, repo,
                    outcome, yielded, errors, report, file, interrupted >>

\* the generator is created; its body runs when the first pair is asked for
StartPipeline ==
    /\ pc = "start" /\ ~(caller = "main" /\ backend = "typed")
    /\ pc' = "next"
    /\ UNCHANGED << date_filter, events_vars, listing_vars, retry_vars, cli_vars, exhausted,
                    signal, org_error, clock_vars, backend, caller, pos, repo,
                    outcome, yielded, errors, report, file, interrupted, exit >>

\* fetch_org_repos(_gh) cannot list the organization: FetchError (typed) or
\* GhCliError (CLI) leaves the pipeline; main saves the report and exits 1.
\* The failing call has taken time.
OrgListingFails ==
    /\ pc = "next" /\ pos = 0 /\ org_error # "none"
    /\ pc' = "exited"
    /\ exit' = IF caller = "main" THEN Exit(1, "none")
               ELSE Exit(1, IF backend = "typed" THEN "FetchError" ELSE "GhCliError")
    /\ now' = now + 1
    /\ file' = IF caller = "main" THEN Written(report) ELSE file
    /\ saved' = IF caller = "main" THEN Append(saved, Stamp(generated_at, now + 1, report))
                ELSE saved
    /\ exhausted' = (backend = "gh" /\ org_error = "rate_limit")
    /\ UNCHANGED << date_filter, events_vars, listing_vars, retry_vars, cli_vars, signal,
                    org_error, generated_at, backend,
                    caller, pos, repo, outcome, yielded, errors, report, interrupted >>

\* one iteration of the repository loop, on the repository GitHub lists next;
\* the iteration has taken time
NextRepo ==
    /\ pc = "next" /\ pos < MaxRepos /\ org_error = "none"
    /\ \E r \in RepoInputs(pos + 1) :
         LET o == ProcessRepo(backend, caller = "main", r, date_filter)
         IN  /\ repo' = r
             /\ outcome' = o
             /\ pos' = pos + 1
             /\ yielded' = IF o.kind = "yield" THEN Append(yielded, << r.name, o.prs >>)
                           ELSE yielded
             /\ errors' = IF o.kind = "error" THEN errors \cup {r.name} ELSE errors
             /\ pc' = CASE o.kind = "yield" -> "yielded"
                        [] o.kind = "raise" -> "exited"
                        [] OTHER -> "next"
             /\ exit' = IF o.kind = "raise" THEN Exit(1, o.raised) ELSE exit
             /\ exhausted' = (exhausted \/ o.raised = "RateLimitError")
    /\ now' = now + 1
    /\ UNCHANGED << date_filter, events_vars, listing_vars, retry_vars, cli_vars, signal,
                    org_error, generated_at, saved, backend,
                    caller, report, file, interrupted >>

\* the organization has no further repository: the generator ends; main
\* leaves its loop and exits 130 when interrupted
NoMoreRepos ==
    /\ pc = "next" /\ org_error = "none"
    /\ pc' = "exited"
    /\ exit' = IF caller = "main" /\ interrupted THEN Exit(130, "none") ELSE Exit(0, "none")
    /\ UNCHANGED << date_filter, events_vars, listing_vars, retry_vars, cli_vars, exhausted,
                    signal, org_error, clock_vars, backend, caller, pos, repo,
                    outcome, yielded, errors, report, file, interrupted >>

\* the body of main's loop for the pair just yielded
MainHandlesPairUnchecked ==
    /\ pc = "yielded" /\ caller = "main"
    /\ LET pair == yielded[Len(yielded)]
           stored == (pair[1] :> pair[2]) @@ report
       IN  /\ report' = stored
           /\ generated_at' = now
           /\ file' = Written(stored)
           /\ saved' = Append(saved, Stamp(now, now, stored))
           /\ pc' = "next"
           /\ UNCHANGED exit
    /\ UNCHANGED << date_filter, events_vars, listing_vars, retry_vars, cli_vars, exhausted,
                    signal, org_error, now, backend, caller, pos, repo, outcome, yielded,
                    errors, interrupted >>

MainHandlesPairOverwrites ==
    /\ pc = "yielded" /\ caller = "main"
    /\ LET pair == yielded[Len(yielded)]
           stored == (pair[1] :> pair[2])
       IN  IF interrupted
           THEN /\ pc' = "exited"
                /\ exit' = Exit(130, "none")
                /\ UNCHANGED << report, file, generated_at, saved >>
           ELSE /\ report' = stored
                /\ generated_at' = now
                /\ file' = Written(stored)
                /\ saved' = Append(saved, Stamp(now, now, stored))
                /\ pc' = "next"
                /\ UNCHANGED exit
    /\ UNCHANGED << date_filter, events_vars, listing_vars, retry_vars, cli_vars, exhausted,
                    signal, org_error, now, backend, caller, pos, repo,
                    outcome, yielded, errors, interrupted >>

MainHandlesPairUnsaved ==
    /\ pc = "yielded" /\ caller = "main"
    /\ LET pair == yielded[Len(yielded)]
           stored == (pair[1] :> pair[2]) @@ report
       IN  IF interrupted
           THEN /\ pc' = "exited"
                /\ exit' = Exit(130, "none")
                /\ UNCHANGED << report, generated_at >>
           ELSE /\ report' = stored
                /\ generated_at' = now
                /\ pc' = "next"
                /\ UNCHANGED exit
    /\ UNCHANGED << date_filter, events_vars, listing_vars, retry_vars, cli_vars, exhausted,
                    signal, org_error, now, backend, caller, pos, repo,
                    outcome, yielded, errors, interrupted, file, saved >>

MainHandlesPair ==
    /\ pc = "yielded" /\ caller = "main"
    /\ LET pair == yielded[Len(yielded)]
           stored == (pair[1] :> pair[2]) @@ report
       IN  IF interrupted
           THEN /\ pc' = "exited"
                /\ exit' = Exit(130, "none")
                /\ UNCHANGED << report, file, generated_at, saved >>
           ELSE /\ report' = stored
                /\ generated_at' = now
                /\ file' = Written(stored)
                /\ saved' = Append(saved, Stamp(now, now, stored))
                /\ pc' = "next"
                /\ UNCHANGED exit
    /\ UNCHANGED << date_filter, events_vars, listing_vars, retry_vars, cli_vars, exhausted,
                    signal, org_error, now, backend, caller, pos, repo,
                    outcome, yielded, errors, interrupted >>

\* a caller that only collects the pairs asks for the next one
ListTakesPair ==
    /\ pc = "yielded" /\ caller = "list"
    /\ pc' = "next"
    /\ UNCHANGED << date_filter, events_vars, listing_vars, retry_vars, cli_vars, exhausted,
                    signal, org_error, clock_vars, backend, caller, pos, repo,
                    outcome, yielded, errors, report, file, interrupted, exit >>

\* SIGINT: handle_interrupt sets the flag
Interrupt ==
    /\ caller = "main" /\ pc \in {"start", "next", "yielded"} /\ ~interrupted
    /\ interrupted' = TRUE
    /\ signal' = [pc |-> pc, pos |-> pos, yielded |-> Len(yielded)]
    /\ UNCHANGED << date_filter, events_vars, listing_vars, retry_vars, cli_vars, exhausted,
                    org_error, clock_vars, backend,
                    caller, pc, pos, repo, outcome, yielded, errors, report, file, exit >>

Next ==
    \/ MainCallsTyped
    \/ StartPipeline
    \/ OrgListingFails
    \/ NextRepo
    \/ NoMoreRepos
    \/ MainHandlesPair
    \/ ListTakesPair
    \/ Interrupt

Spec == Init /\ [][Next]_vars

\* ------------------------------------------- specification of the retries
MaxRetries == 5

GhKinds == {"ok", "empty", "rate_limit", "error", "missing", "bad_json"}

RetryComments == {Comment("bob", t) : t \in ActivityTimes}

RetryReview == Review("carol", 1, "COMMENTED", TRUE)

\* pull requests with up to MaxItems review comments, one issue comment and
\* one review with a body
RetryPullRequests ==
    { PullRequest(1, "alice", 0, "open", FALSE, NoUser, NoTime, NoTime,
                  rc, << Comment("bob", 1) >>, << RetryReview >>) :
      rc \in UNION {SeqsOfLen(RetryComments, n) : n \in 0..MaxItems} }

\* what a typed source may do in one attempt
TypedAnswers(p, source) ==
    {Attempt("ok", Len(SourceItems(p, source)))}
    \cup {Attempt(k, d) : k \in {"rate_limit", "error"},
                          d \in 0..Len(SourceItems(p, source))}

\* _run_gh_command alone, for every max_retries up to MaxRetries
InitGhCommand ==
    /\ \E n \in 0..MaxRetries :
         /\ gh_run = GhRun(n, "running")
         /\ plan \in SeqsOfLen({Attempt(k, 0) : k \in GhKinds}, n)
    /\ fault = "none"
    /\ date_filter = DateFilter(NoDate, NoDate)
    /\ typed_run = NoTypedRun
    /\ EventsIdle

\* fetch_pr_events_gh, the gh command of one source answering as in plan
InitGhSource ==
    /\ date_filter \in RunFilters
    /\ pr \in RetryPullRequests
    /\ fault \in {Sources[i] : i \in DOMAIN Sources}
    /\ plan \in SeqsOfLen({Attempt(k, 0) : k \in GhKinds}, DefaultMaxRetries)
    /\ gh_run = GhRun(DefaultMaxRetries, "running")
    /\ typed_run = NoTypedRun
    /\ typed_result = Pending
    /\ gh_result = Pending

\* fetch_pr_events after its created event, one source answering as in plan
InitTypedSource ==
    /\ date_filter \in RunFilters
    /\ pr \in RetryPullRequests
    /\ fault \in {Sources[i] : i \in DOMAIN Sources}
    /\ plan \in SeqsOfLen(TypedAnswers(pr, fault), max_retries)
    /\ typed_run = TypedRun(CreatedEvents(pr), "running")
    /\ gh_run = NoGhRun
    /\ typed_result = Pending
    /\ gh_result = Pending

InitRetry ==
    /\ (InitGhCommand \/ InitGhSource \/ InitTypedSource)
    /\ ListingIdle
    /\ RunIdle
    /\ CliIdle

\* one iteration of the loop of _run_gh_command; when the command was that
\* of a source and has ended, fetch_pr_events_gh goes on with its answer or,
\* after GhCliError or without a parsed list, with []
RunGhAttempt ==
    /\ gh_run.status = "running"
    /\ LET kind == IF gh_run.attempt < Len(plan) THEN plan[gh_run.attempt + 1].kind
                   ELSE "none"
           next == RunGhStep(gh_run, kind)
       IN  /\ gh_run' = next
           /\ gh_result' =
                IF fault = "none" \/ next.status = "running" THEN gh_result
                ELSE FetchPrEventsGh(pr, date_filter,
                                     IF next.result = "json" THEN "none" ELSE fault)
    /\ UNCHANGED << date_filter, pr, typed_result, listing_vars, run_vars, fault, plan,
                    typed_run, cli_vars >>

\* one iteration of a retry loop of fetch_pr_events; after the last loop the
\* merged or closed event is appended, the events are sorted and returned
TypedAttempt ==
    /\ typed_run.status = "running"
    /\ LET source == Sources[typed_run.source]
           answer == IF source = fault THEN plan[typed_run.attempt + 1]
                     ELSE Attempt("ok", Len(SourceItems(pr, source)))
           next == SourceStep(typed_run, pr, date_filter, answer)
       IN  /\ typed_run' = next
           /\ typed_result' =
                CASE next.status = "returned" ->
                       Returned(SortByDate(next.events \o TerminalEvents(pr)))
                  [] next.status = "raised" -> Raised(next.raised)
                  [] OTHER -> typed_result
    /\ UNCHANGED << date_filter, pr, gh_result, listing_vars, run_vars, fault, plan, gh_run,
                    cli_vars >>

NextRetry ==
    \/ RunGhAttempt
    \/ TypedAttempt

SpecRetry == InitRetry /\ [][NextRetry]_vars

\* ------------------------------------------- the runs under fair scheduling
\* The program is sequential and every transport call returns or raises and
\* every sleep ends: a run that has not exited goes on to its next step, and
\* a retry loop that has not ended makes its next iteration.  The fairness
\* conditions are stated on the variables that carry the control (pc and
\* pos; gh_run; typed_run), which only the steps of the program change.
\* SIGINT is the user's: nothing says it ever arrives.
ControlMoves ==
    /\ pc # "exited"
    /\ pc' \in {"start", "next", "yielded", "exited"}
    /\ pos' \in 0..MaxRepos

GhLoopIterates ==
    /\ gh_run.status = "running"
    /\ gh_run' = RunGhStep(gh_run, IF gh_run.attempt < Len(plan)
                                   THEN plan[gh_run.attempt + 1].kind ELSE "none")

TypedLoopIterates ==
    /\ typed_run.status = "running"
    /\ typed_run' =
         SourceStep(typed_run, pr, date_filter,
                    IF Sources[typed_run.source] = fault THEN plan[typed_run.attempt + 1]
                    ELSE Attempt("ok", Len(SourceItems(pr, Sources[typed_run.source]))))

\* nothing runs yet
InitLive ==
    /\ date_filter = DateFilter(NoDate, NoDate)
    /\ EventsIdle /\ ListingIdle /\ RunIdle /\ RetryIdle /\ CliIdle

\* main is started as in Init
LaunchMain ==
    /\ InitLive
    /\ date_filter' \in RunFilters
    /\ backend' \in {"typed", "gh"}
    /\ caller' = "main"
    /\ org_error' \in {"none", "not_found", "error", "rate_limit"}
    /\ pc' = "start"
    /\ UNCHANGED << events_vars, listing_vars, retry_vars, cli_vars, pos, repo, outcome,
                    yielded, errors, report, file, interrupted, exit, exhausted, signal,
                    clock_vars >>

\* fetch_pr_events_gh is called as in InitGhSource, without a window: its
\* gh commands run with the default max_retries
LaunchGhSource ==
    /\ InitLive
    /\ pr' \in RetryPullRequests
    /\ fault' \in {Sources[i] : i \in DOMAIN Sources}
    /\ plan' \in SeqsOfLen({Attempt(k, 0) : k \in GhKinds}, DefaultMaxRetries)
    /\ gh_run' = GhRun(DefaultMaxRetries, "running")
    /\ UNCHANGED << date_filter, typed_result, gh_result, listing_vars, run_vars, cli_vars,
                    typed_run >>

\* fetch_pr_events is called as in InitTypedSource, without a window
LaunchTypedSource ==
    /\ InitLive
    /\ \E p \in RetryPullRequests, source \in {Sources[i] : i \in DOMAIN Sources} :
         /\ pr' = p
         /\ fault' = source
         /\ plan' \in SeqsOfLen(TypedAnswers(p, source), max_retries)
         /\ typed_run' = TypedRun(CreatedEvents(p), "running")
    /\ UNCHANGED << date_filter, typed_result, gh_result, listing_vars, run_vars, cli_vars,
                    gh_run >>

NextLive ==
    \/ LaunchMain
    \/ LaunchGhSource
    \/ LaunchTypedSource
    \/ MainCallsTyped
    \/ StartPipeline
    \/ OrgListingFails
    \/ NextRepo
    \/ NoMoreRepos
    \/ MainHandlesPair
    \/ Interrupt
    \/ NextRetry

SpecLive ==
    /\ InitLive
    /\ [][NextLive]_vars
    /\ WF_<< pc, pos >>(ControlMoves)
    /\ WF_gh_run(GhLoopIterates)
    /\ WF_typed_run(TypedLoopIterates)

\* --------------------------------------- specification of the two filters
MaxPatterns == 2

\* repository names and patterns, character by character
NameInputs == { << "p", "a" >>, << "p", "a", "t" >>, << "t" >>, << "x" >> }

PatternInputs == { << "*", "a", "*" >>, << "*", "t", "*" >>, << "p", "?" >>, << "x" >> }

PatternLists == UNION { SeqsOfLen(PatternInputs, n) : n \in 0..MaxPatterns }

\* should_process_repo is about to be called
InitRepoFilter ==
    /\ include_patterns \in PatternLists
    /\ exclude_patterns \in PatternLists
    /\ repo_name \in NameInputs
    /\ processed = Called
    /\ date_filter = DateFilter(NoDate, NoDate)
    /\ dt = NoTime
    /\ contained = NotCalled

\* DateFilter.contains is about to be called
InitDateFilter ==
    /\ date_filter \in DateFilters
    /\ dt \in {NoTime} \cup Times
    /\ contained = Called
    /\ include_patterns = << >> /\ exclude_patterns = << >> /\ repo_name = << >>
    /\ processed = NotCalled

InitFilters ==
    /\ (InitRepoFilter \/ InitDateFilter)
    /\ AuthIdle
    /\ EventsIdle
    /\ ListingIdle
    /\ RunIdle
    /\ RetryIdle

CallShouldProcessRepo ==
    /\ processed = Called
    /\ processed' = Answered(ShouldProcessRepo(include_patterns, exclude_patterns, repo_name))
    /\ UNCHANGED << date_filter, events_vars, listing_vars, run_vars, retry_vars, options, network,
                    include_patterns, exclude_patterns, repo_name, dt, contained >>

CallContains ==
    /\ contained = Called
    /\ contained' = Answered(Contains(date_filter, dt))
    /\ UNCHANGED << date_filter, events_vars, listing_vars, run_vars, retry_vars, options, network,
                    include_patterns, exclude_patterns, repo_name, dt, processed >>

NextFilters ==
    \/ CallShouldProcessRepo
    \/ CallContains

SpecFilters == InitFilters /\ [][NextFilters]_vars

\* ------------------------------- specification of the credentials of main
\* --app-id and --installation-id: not given, 0 or a positive number
OptionInputs ==
    { Options(g, t, a, k, i) : g \in BOOLEAN, t \in {None, "token"}, a \in {None, "0", "7"},
                               k \in {None, "key.pem"}, i \in {None, "0", "9"} }

\* main after the options are parsed
InitAuth ==
    /\ options \in OptionInputs
    /\ network = << >>
    /\ pc = "credentials"
    /\ backend = "none" /\ caller = "main" /\ pos = 0
    /\ repo = NoRepo /\ outcome = NoOutcome /\ yielded = << >> /\ errors = {}
    /\ report = << >> /\ file = NoFile /\ interrupted = FALSE /\ exit = NotExited
    /\ exhausted = FALSE /\ signal = NoSignal
    /\ org_error = "none" /\ now = 0 /\ generated_at = 0 /\ saved = << >>
    /\ date_filter = DateFilter(NoDate, NoDate)
    /\ FilterIdle
    /\ EventsIdle
    /\ ListingIdle
    /\ RetryIdle

\* what an action of main's start leaves alone
auth_unchanged == << date_filter, events_vars, listing_vars, retry_vars, options,
                     include_patterns, exclude_patterns, repo_name, dt, processed, contained,
                     caller, pos, repo, outcome, yielded, errors, report, file, interrupted,
                     exhausted, signal, org_error, clock_vars >>

\* the check of the GitHub App options (not made with --use-gh-cli)
CheckCredentials ==
    /\ pc = "credentials"
    /\ IF RejectsCredentials(options)
       THEN pc' = "exited" /\ exit' = Exit(1, "none")
       ELSE pc' = (IF options.use_gh_cli THEN "fetch" ELSE "authenticate") /\ UNCHANGED exit
    /\ UNCHANGED << auth_unchanged, network, backend >>

\* the client is made: the GitHub App asks for an access token and verifies
\* it, the token is verified, the unauthenticated client makes no call; a
\* failed call is an AuthenticationError and main exits 1
Authenticate ==
    /\ pc = "authenticate"
    /\ \E ok \in BOOLEAN :
         /\ network' = IF HasAppAuth(options)
                       THEN network \o (IF ok THEN << "get_access_token", "get_user" >>
                                        ELSE << "get_access_token" >>)
                       ELSE IF options.token # None THEN Append(network, "get_user")
                       ELSE network
         /\ IF ~ok /\ (HasAppAuth(options) \/ options.token # None)
            THEN pc' = "exited" /\ exit' = Exit(1, "none")
            ELSE pc' = "fetch" /\ UNCHANGED exit
    /\ UNCHANGED << auth_unchanged, backend >>

\* the pipeline is called: fetch_organization_data_gh with its three
\* arguments, fetch_organization_data with one too many
CallPipeline ==
    /\ pc = "fetch"
    /\ backend' = IF options.use_gh_cli THEN "gh" ELSE "typed"
    /\ IF options.use_gh_cli
       THEN pc' = "next" /\ UNCHANGED exit
       ELSE pc' = "exited" /\ exit' = Exit(1, "TypeError")
    /\ UNCHANGED << auth_unchanged, network >>

\* main asks for the first pair: fetch_org_repos_gh runs `gh repo list`
ListRepos ==
    /\ pc = "next"
    /\ network' = Append(network, "gh repo list")
    /\ pc' = "listed"
    /\ UNCHANGED << auth_unchanged, backend, exit >>

NextAuth ==
    \/ CheckCredentials
    \/ Authenticate
    \/ CallPipeline
    \/ ListRepos

SpecAuth == InitAuth /\ [][NextAuth]_vars

\* ------------------------------------------------- vocabulary of the claims
Occurrences(events, e) ==
    Cardinality({i \in DOMAIN events : events[i] = e})

CountType(events, type) ==
    Cardinality({i \in DOMAIN events : events[i].type = type})

\* the window rule of the specification, on the calendar day of an instant
InWindow(w, t) ==
    /\ (w.since = NoDate \/ t \div TicksPerDay >= w.since)
    /\ (w.until = NoDate \/ t \div TicksPerDay <= w.until)

\* the instant a date text names
InstantOf(date) ==
    date[1] * TicksPerDay + date[2]

Chronological(events) ==
    \A i, j \in DOMAIN events : i < j => InstantOf(events[i].date) <= InstantOf(events[j].date)

TypePerson(events) ==
    [i \in DOMAIN events |-> << events[i].type, events[i].person >>]

WithoutReviews(p) ==
    [p EXCEPT !.reviews = << >>]

WithoutComments(p) ==
    [p EXCEPT !.review_comments = << >>, !.issue_comments = << >>]

BothReturned ==
    typed_result.raised = "none" /\ gh_result.raised = "none"

\* ------------------------------------------------------------------ claims
\* C1: in both backends the returned event list is sorted ascending by date,
\* whatever the order in which the sources delivered their items.
C1_EventsSortedByDate ==
    /\ typed_result.raised = "none" => Chronological(typed_result.events)
    /\ gh_result.raised = "none" => Chronological(gh_result.events)

\* C1 witness: both backends returned three events or more, and both had
\* discovered them out of order.
C1_Witness ==
    /\ BothReturned
    /\ Len(typed_result.events) >= 3
    /\ ~Chronological(DiscoveredEvents(pr, date_filter))
    /\ ~Chronological(DiscoveredEventsGh(pr, date_filter, "none"))

\* C2: for the same upstream data and window the two backends return the
\* same sequence of (type, person) pairs.
C2_BackendsEquivalent ==
    BothReturned => TypePerson(typed_result.events) = TypePerson(gh_result.events)

\* C3: the typed backend emits one approved event per APPROVED review and one
\* changes_requested event per CHANGES_REQUESTED review that has an actor and
\* a submission time, inside the window or not.
C3_TypedReviewDispositions ==
    typed_result.raised = "none" =>
        /\ CountType(typed_result.events, "approved") =
             Cardinality({i \in DOMAIN pr.reviews :
                 /\ pr.reviews[i].user # NoUser /\ pr.reviews[i].at # NoTime
                 /\ pr.reviews[i].state = "APPROVED"})
        /\ CountType(typed_result.events, "changes_requested") =
             Cardinality({i \in DOMAIN pr.reviews :
                 /\ pr.reviews[i].user # NoUser /\ pr.reviews[i].at # NoTime
                 /\ pr.reviews[i].state = "CHANGES_REQUESTED"})

\* what C4 says one review contributes
C4_Contribution(w, review) ==
    IF review.user = NoUser \/ review.at = NoTime THEN << >>
    ELSE (IF review.state \in {"APPROVED", "CHANGES_REQUESTED"}
          THEN << Event(IF review.state = "APPROVED" THEN "approved"
                        ELSE "changes_requested",
                        IsoFormat(review.at), review.user) >>
          ELSE << >>)
         \o (IF review.body /\ InWindow(w, review.at)
             THEN << Event("comment", IsoFormat(review.at), review.user) >>
             ELSE << >>)

\* C4: in the CLI backend each review contributes, independently of the
\* others, nothing without actor or submission time, else one approved or
\* changes_requested event by its state (never date-filtered) plus one comment
\* event when its body is non-empty and its time is inside the window: the
\* returned events are those of the pull request without reviews plus these.
C4_GhReviewContributions ==
    gh_result.raised = "none" =>
        LET rest == FetchPrEventsGh(WithoutReviews(pr), date_filter, "none").events
            given == [i \in DOMAIN pr.reviews |-> C4_Contribution(date_filter, pr.reviews[i])]
            all == {gh_result.events[i] : i \in DOMAIN gh_result.events}
                   \cup {rest[i] : i \in DOMAIN rest}
                   \cup UNION {{given[i][k] : k \in DOMAIN given[i]} : i \in DOMAIN given}
            Sum[i \in 0..Len(given)] ==
                [e \in all |-> IF i = 0 THEN 0
                               ELSE Sum[i - 1][e] + Occurrences(given[i], e)]
        IN  /\ \A e \in all :
                 Occurrences(gh_result.events, e)
                   = Occurrences(rest, e) + Sum[Len(given)][e]
            /\ \A i \in DOMAIN given : Len(given[i]) <= 2

\* C4 witness: two reviews, one without actor that contributes nothing and one
\* approval with a body inside the window that contributes two events.
C4_Witness ==
    /\ gh_result.raised = "none"
    /\ Len(pr.reviews) = 2
    /\ \E i, j \in DOMAIN pr.reviews :
         /\ pr.reviews[i].user = NoUser
         /\ pr.reviews[j].user # NoUser /\ pr.reviews[j].at # NoTime
         /\ pr.reviews[j].state = "APPROVED" /\ pr.reviews[j].body
         /\ InWindow(date_filter, pr.reviews[j].at)
    /\ CountType(gh_result.events, "approved") = 1
    /\ CountType(gh_result.events, "comment") = 1

\* the PR records of a list of (name, prs) pairs or of a repositories mapping
NoEmptyEntry(repositories) ==
    \A n \in DOMAIN repositories :
        /\ repositories[n] # << >>
        /\ \A k \in DOMAIN repositories[n] : repositories[n][k].events # << >>

\* C5: no PR record with an empty events list and no repository with an empty
\* PR list is yielded by either pipeline, stored in main's report or written
\* to the output file.
C5_NoEmptyRecords ==
    /\ \A i \in DOMAIN yielded :
          /\ yielded[i][2] # << >>
          /\ \A k \in DOMAIN yielded[i][2] : yielded[i][2][k].events # << >>
    /\ NoEmptyEntry(report)
    /\ NoEmptyEntry(file.repositories)

\* C5 witness: main wrote a report after a repository whose every pull request
\* was dropped had been passed over, and the repository stored last lost
\* one of its two pull requests for having no events.
C5_Witness ==
    /\ caller = "main" /\ file.written
    /\ repo.name \in DOMAIN file.repositories
    /\ Len(repo.pulls) = 2 /\ Len(file.repositories[repo.name]) = 1
    /\ errors = {}
    /\ \E n \in 1..pos : n \notin DOMAIN file.repositories

\* C6: in both backends a pull request with an author yields exactly one
\* created event, at its creation time and by its author, for every window;
\* one without an author yields none; with an author and nothing else it
\* yields that one event and its record is kept.
C6_CreatedEvent ==
    \A r \in {typed_result, gh_result} :
        r.raised = "none" =>
            /\ pr.author # NoUser =>
                 /\ CountType(r.events, "created") = 1
                 /\ Occurrences(r.events,
                        Event("created", IsoFormat(pr.created), pr.author)) = 1
            /\ pr.author = NoUser => CountType(r.events, "created") = 0
            /\ ( /\ pr.author # NoUser /\ pr.state = "open"
                 /\ pr.review_comments = << >> /\ pr.issue_comments = << >>
                 /\ pr.reviews = << >> )
               => /\ r.events = << Event("created", IsoFormat(pr.created), pr.author) >>
                  /\ HasEvents([number |-> pr.number, events |-> r.events])

\* C6 witness: both backends returned the events of a pull request by an
\* author that was created outside the window.
C6_Witness ==
    /\ BothReturned
    /\ pr.author # NoUser
    /\ ~InWindow(date_filter, pr.created)
    /\ CountType(typed_result.events, "created") = 1
    /\ CountType(gh_result.events, "created") = 1

\* what C7 says one review comment or issue comment contributes
C7_Contribution(w, comment) ==
    IF comment.user # NoUser /\ InWindow(w, comment.at)
    THEN << Event("comment", IsoFormat(comment.at), comment.user) >>
    ELSE << >>

BeforeSince(i) ==
    date_filter.since # NoDate /\ pulls[i].created \div TicksPerDay < date_filter.since

AfterUntil(i) ==
    date_filter.until # NoDate /\ pulls[i].created \div TicksPerDay > date_filter.until

YieldedSet(listing) ==
    {listing.yielded[k] : k \in DOMAIN listing.yielded}

\* C8 as claimed: fetch_repo_prs stops at the first pull request created before
\* since: nothing after it is taken from upstream, neither it nor anything after
\* it is yielded; one created after until is skipped and enumeration goes on.
C8_StopsAtFirstBeforeSince ==
    /\ \A f \in DOMAIN pulls :
         (BeforeSince(f) /\ \A k \in 1..(f - 1) : ~BeforeSince(k)) =>
            /\ typed_listing.pos <= f
            /\ \A n \in YieldedSet(typed_listing) : n < f
    /\ \A i \in 1..typed_listing.pos : AfterUntil(i) => i \notin YieldedSet(typed_listing)
    /\ (typed_listing.done /\ typed_listing.pos < Len(pulls))
         => ~AfterUntil(typed_listing.pos)

\* C8 as amended: fetch_repo_prs takes the upstream list in order and stops at
\* the first pull request created before since and not after until: nothing
\* after it is taken from upstream and it is not yielded; it stops nowhere
\* else; one created after until is skipped and enumeration goes on; what was
\* yielded so far is, in order, every pull request taken that is in the window.
C8_StopsAtFirstBeforeSinceNotAfterUntil ==
    /\ \A f \in DOMAIN pulls :
         ( /\ BeforeSince(f) /\ ~AfterUntil(f)
           /\ \A k \in 1..(f - 1) : ~(BeforeSince(k) /\ ~AfterUntil(k)) ) =>
            /\ typed_listing.pos <= f
            /\ \A n \in YieldedSet(typed_listing) : n < f
    /\ (typed_listing.done /\ typed_listing.pos < Len(pulls))
         => BeforeSince(typed_listing.pos) /\ ~AfterUntil(typed_listing.pos)
    /\ YieldedSet(typed_listing) =
         {i \in 1..typed_listing.pos : ~BeforeSince(i) /\ ~AfterUntil(i)}
    /\ \A a, b \in DOMAIN typed_listing.yielded :
         a < b => typed_listing.yielded[a] < typed_listing.yielded[b]

\* C8 witness: the generator skipped a pull request created after until,
\* yielded one, and stopped at one created before since while a pull request
\* inside the window was still to come.
C8_Witness ==
    /\ typed_listing.done
    /\ typed_listing.pos < Len(pulls)
    /\ BeforeSince(typed_listing.pos)
    /\ \E k \in (typed_listing.pos + 1)..Len(pulls) : ~BeforeSince(k) /\ ~AfterUntil(k)
    /\ \E j \in 1..typed_listing.pos : AfterUntil(j)
    /\ typed_listing.yielded # << >>

\* C9: fetch_repo_prs_gh stops enumerating at the first pull request created
\* before since: no pull request that comes after such a one is yielded.
C9_GhStopsAtFirstBeforeSince ==
    \A n \in YieldedSet(gh_listing) : \A k \in 1..(n - 1) : ~BeforeSince(k)

\* the transport error the last repository met while its pull requests were
\* listed or one of them was processed
MetTransportError ==
    IF backend = "gh" THEN repo.list_fault # NoFault
    ELSE \/ repo.list_fault = 0
         \/ /\ repo.pulls # << >>
            /\ InWindow(date_filter, repo.pulls[1].pr.created)
            /\ repo.pulls[1].fault # "none"

\* the last repository has no failing call and a pull request with an author
\* inside the window, before which every pull request is inside the window
Qualifying ==
    /\ repo.list_fault = NoFault
    /\ \A i \in DOMAIN repo.pulls : repo.pulls[i].fault = "none"
    /\ \E i \in DOMAIN repo.pulls :
         /\ repo.pulls[i].pr.author # NoUser
         /\ \A k \in 1..i : InWindow(date_filter, repo.pulls[k].pr.created)

Passed ==
    (backend = "gh" /\ caller = "main") => repo.admitted

\* C10: in both pipelines a transport error met while a repository's pull
\* requests are listed or processed (GithubException typed, GhCliError CLI)
\* skips that repository: it is not yielded, the error does not leave the
\* pipeline, and a later repository with qualifying pull requests is yielded.
C10_RepositoryFaultIsolation ==
    /\ outcome.kind # "raise"
    /\ pos > 0 => exit.uncaught = "none"
    /\ (pos > 0 /\ Passed /\ MetTransportError) =>
          /\ outcome.kind = "error"
          /\ repo.name \in errors
    /\ \A i \in DOMAIN yielded : yielded[i][1] \notin errors
    /\ (pos > 0 /\ Passed /\ Qualifying) =>
          /\ outcome.kind = "yield"
          /\ yielded # << >>
          /\ yielded[Len(yielded)][1] = repo.name

\* C10 witness: a repository was skipped for an error met while its second
\* pull request was processed, and the repository after it was yielded.
C10_Witness ==
    /\ backend = "typed"
    /\ pos >= 2 /\ (pos - 1) \in errors
    /\ outcome.kind = "yield" /\ repo.name = pos
    /\ yielded[Len(yielded)][1] = pos

\* the pull request p with nothing in one of its three sources
WithoutSource(p, source) ==
    [p EXCEPT ![source] = << >>]

FaultyCalls ==
    Cardinality({i \in DOMAIN typed_run.calls : typed_run.calls[i] = fault})

FailsOnceThenSucceeds ==
    Len(plan) >= 2 /\ plan[1].kind = "rate_limit" /\ plan[2].kind = "ok"

\* C12: in both backends, when a rate-limited call fails with the rate-limit
\* signal on attempt 0 and succeeds on attempt 1, there is exactly one sleep,
\* of 60 seconds, the call is made exactly twice, and the caller gets the
\* successful result: _run_gh_command returns the parsed answer (and
\* fetch_pr_events_gh the events of the whole pull request), fetch_pr_events
\* returns the events it returns when no call fails.
C12_OneRetryThenSuccess ==
    FailsOnceThenSucceeds =>
        /\ (gh_run.status \notin {"idle", "running"} /\ gh_run.max_retries >= 2) =>
              /\ gh_run.sleeps = << 60 >>
              /\ gh_run.calls = 2
              /\ gh_run.status = "returned" /\ gh_run.result = "json"
              /\ fault # "none" =>
                    gh_result = FetchPrEventsGh(pr, date_filter, "none")
        /\ typed_run.status \notin {"idle", "running"} =>
              /\ typed_run.sleeps = << 60 >>
              /\ FaultyCalls = 2
              /\ typed_result = FetchPrEvents(pr, date_filter, "none")

AlwaysRateLimited ==
    \A i \in DOMAIN plan : plan[i].kind = "rate_limit"

\* C13: for every max_retries n >= 1, when the gh command fails with the
\* rate-limit signal on every attempt, _run_gh_command runs it exactly n
\* times, sleeps exactly n - 1 times, the i-th sleep (from 0) lasting
\* min(60 * 2^i, 300) seconds, and raises RateLimitError.
C13_GhRateLimitExhaustion ==
    ( /\ gh_run.status \notin {"idle", "running"}
      /\ gh_run.max_retries >= 1
      /\ AlwaysRateLimited ) =>
        /\ gh_run.calls = gh_run.max_retries
        /\ Len(gh_run.sleeps) = gh_run.max_retries - 1
        /\ \A i \in 0..(gh_run.max_retries - 2) :
              gh_run.sleeps[i + 1] = IF 60 * (2 ^ i) < 300 THEN 60 * (2 ^ i) ELSE 300
        /\ gh_run.status = "raised" /\ gh_run.raised = "RateLimitError"
        /\ gh_run.max_retries = 3 => gh_run.sleeps = << 60, 120 >>

\* C13 witness: five attempts were all rate-limited; the fourth sleep is capped.
C13_Witness ==
    /\ gh_run.max_retries = 5 /\ AlwaysRateLimited
    /\ gh_run.status = "raised" /\ gh_run.raised = "RateLimitError"
    /\ gh_run.calls = 5
    /\ gh_run.sleeps = << 60, 120, 240, 300 >>

\* C14: in the typed backend, when one per-PR source raises the rate-limit
\* exception on every attempt, fetch_pr_events reads that source exactly
\* max_retries = 3 times, sleeps 60 s and 120 s between the reads and raises
\* FetchError; it never returns normally without that source's events.
C14_TypedRateLimitExhaustion ==
    (typed_run.status \notin {"idle", "running"} /\ AlwaysRateLimited) =>
        /\ FaultyCalls = max_retries
        /\ typed_run.sleeps = << 60, 120 >>
        /\ typed_run.status = "raised"
        /\ typed_result = Raised("FetchError")

\* the first attempt that does not answer with the rate-limit signal
FirstOther ==
    CHOOSE i \in DOMAIN plan :
        plan[i].kind # "rate_limit" /\ \A k \in 1..(i - 1) : plan[k].kind = "rate_limit"

\* C15: a failure that is not a rate-limit signal is never retried.  When
\* the gh command fails with another error, gh is missing or the output is
\* not JSON, _run_gh_command raises GhCliError on that attempt: after exactly
\* one attempt and no sleep when it is the first, and only the rate-limited
\* attempts before it were followed by a sleep.  In the typed backend a
\* GithubException of a source that is not a rate limit leaves fetch_pr_events
\* on the attempt that raised it.
C15_OtherFailuresNotRetried ==
    ~AlwaysRateLimited =>
        /\ ( /\ gh_run.status \notin {"idle", "running"}
              /\ plan[FirstOther].kind \in {"error", "missing", "bad_json"} ) =>
                /\ gh_run.status = "raised" /\ gh_run.raised = "GhCliError"
                /\ gh_run.calls = FirstOther
                /\ Len(gh_run.sleeps) = FirstOther - 1
        /\ ( /\ typed_run.status \notin {"idle", "running"}
              /\ plan[FirstOther].kind = "error" ) =>
                /\ typed_result = Raised("GithubException")
                /\ FaultyCalls = FirstOther
                /\ Len(typed_run.sleeps) = FirstOther - 1

\* C15 witness: a gh command with three attempts allowed answered its first
\* run with output that is not JSON, and GhCliError was raised after that
\* one run.
C15_Witness ==
    /\ gh_run.max_retries = 3 /\ plan[1].kind = "bad_json" /\ plan[2].kind = "ok"
    /\ gh_run.status = "raised" /\ gh_run.raised = "GhCliError"
    /\ gh_run.calls = 1 /\ gh_run.sleeps = << >>

\* C16: rate-limit exhaustion is fatal for the whole run: once the retries of
\* a rate-limited call are used up (repository listing, PR listing or a per-PR
\* source), no further repository is processed, the report accumulated so far
\* is written to the output file and the process exits with code 1.
C16_RateLimitExhaustionFatal ==
    (caller = "main" /\ exhausted) =>
        /\ pc = "exited"
        /\ exit = Exit(1, "none")
        /\ file = Written(report)

\* the repositories map that holds the first k yielded pairs
FirstYielded(k) ==
    [n \in {yielded[i][1] : i \in 1..k} |->
        yielded[CHOOSE i \in 1..k : yielded[i][1] = n][2]]

\* C17: graceful interrupt: if the signal arrives while the pipeline is
\* processing repository R and R ends with a qualifying pull request (is
\* yielded), R is stored in the report and written to the output file before
\* the process exits, and no repository after R is persisted.
C17_InFlightRepositoryPersisted ==
    ( /\ caller = "main" /\ pc = "exited"
      /\ signal.pc = "next"
      /\ \E i \in DOMAIN yielded : yielded[i][1] = signal.pos + 1 ) =>
        /\ file.written
        /\ (signal.pos + 1) \in DOMAIN file.repositories
        /\ \A n \in DOMAIN file.repositories : n <= signal.pos + 1

\* C18: for every k >= 1, if the signal arrives after the k-th yielded
\* repository was persisted and before the pipeline yields again, then at
\* exit the repositories of the output file are exactly those k, with the
\* PR lists yielded for them, and the exit code is 130.
C18_InterruptAfterPersist ==
    ( /\ caller = "main" /\ pc = "exited"
      /\ signal.pc = "next" /\ signal.yielded >= 1 ) =>
        /\ exit = Exit(130, "none")
        /\ file = Written(FirstYielded(signal.yielded))

\* C18 witness: the signal arrived after two repositories were persisted,
\* the pipeline yielded a third, and main exited.
C18_Witness ==
    /\ caller = "main" /\ pc = "exited"
    /\ signal.pc = "next" /\ signal.yielded = 2
    /\ Len(yielded) = 3
    /\ exit.code = 130
    /\ Cardinality(DOMAIN file.repositories) = 2

\* C19: whenever main exits with code 130, the output file has been written
\* in this run and holds the report accumulated so far, also when the signal
\* arrived before the first repository was persisted.
C19_InterruptedExitSavesReport ==
    (caller = "main" /\ pc = "exited" /\ exit.code = 130) => file = Written(report)

\* C20: durability.  After main has handled every yielded pair with no
\* interrupt pending, the output file equals the report and its repositories
\* are exactly those yielded so far; when a fatal FetchError or GhCliError
\* leaves the pipeline, main writes the report once more and exits with code
\* 1, the file holding every repository yielded before the error (none
\* included).
C20_Durability ==
    /\ (caller = "main" /\ pc = "next") =>
          /\ report = FirstYielded(Len(yielded))
          /\ yielded # << >> => (file.written /\ file.repositories = report)
    /\ (caller = "main" /\ pc = "exited" /\ exit = Exit(1, "none")) =>
          /\ file.written /\ file.repositories = report
          /\ report = FirstYielded(Len(yielded))

\* C20 witness: main has persisted two repositories, one was skipped, and no
\* signal has arrived.
C20_Witness ==
    /\ caller = "main" /\ pc = "next" /\ ~interrupted
    /\ Len(yielded) = 2 /\ pos = 3
    /\ file.written /\ Cardinality(DOMAIN file.repositories) = 2

\* a name matches one pattern of the list at least
MatchesSome(name, patterns) ==
    \E i \in DOMAIN patterns : Fnmatch(name, patterns[i])

\* C21: should_process_repo(name) is true exactly when (the include list is
\* empty or the name matches an include pattern) and (the exclude list is
\* empty or the name matches no exclude pattern); a name matching both an
\* include and an exclude pattern is rejected, and with both lists empty
\* every name is accepted.
C21_ShouldProcessRepo ==
    processed.status = "returned" =>
        /\ processed.value =
             ( /\ (include_patterns = << >> \/ MatchesSome(repo_name, include_patterns))
               /\ (exclude_patterns = << >> \/ ~MatchesSome(repo_name, exclude_patterns)) )
        /\ ( MatchesSome(repo_name, include_patterns)
             /\ MatchesSome(repo_name, exclude_patterns) ) => ~processed.value
        /\ (include_patterns = << >> /\ exclude_patterns = << >>) => processed.value

\* C21 witness: should_process_repo has rejected a name that matches an
\* include pattern and an exclude pattern.
C21_Witness ==
    /\ processed.status = "returned" /\ ~processed.value
    /\ repo_name = << "p", "a", "t" >>
    /\ include_patterns = << << "*", "a", "*" >> >>
    /\ exclude_patterns = << << "x" >>, << "*", "t", "*" >> >>

\* C22: in the CLI pipeline a repository rejected by repo_filter causes no
\* listing of pull requests and no fetch of events and is never yielded; with
\* no repo_filter every repository is admitted.
C22_FilteredRepoCostsNothing ==
    (backend = "gh" /\ pos > 0 /\ pc # "start") =>
        /\ (caller = "main" /\ ~repo.admitted) =>
             /\ outcome.kind = "filtered"
             /\ outcome.calls = NoCalls
             /\ \A i \in DOMAIN yielded : yielded[i][1] # repo.name
        /\ caller = "list" =>
             /\ outcome.kind # "filtered"
             /\ outcome.calls.listings = 1

\* C22 witness: main's CLI pipeline has yielded a repository and then passed
\* over one its filter rejects.
C22_Witness ==
    /\ backend = "gh" /\ caller = "main" /\ pos = 2
    /\ Len(yielded) = 1
    /\ ~repo.admitted /\ outcome.kind = "filtered"

\* C23: the typed pipeline accepts a repository filter as fourth argument, so
\* a run of main with the typed backend reaches the enumeration of the
\* repositories and ends with exit code 0, 1 or 130, no exception escaping.
C23_TypedMainReachesEnumeration ==
    (caller = "main" /\ backend = "typed" /\ pc = "exited") =>
        /\ exit.uncaught = "none"
        /\ exit.code \in {0, 1, 130}

\* C24: DateFilter.contains(t) is true exactly when (since is absent or
\* date(t) >= since) and (until is absent or date(t) <= until); an absent
\* timestamp is contained; with no bounds every timestamp is contained; and
\* the accepted timestamps form one contiguous range.
C24_Contains ==
    contained.status = "returned" =>
        /\ dt # NoTime => contained.value = InWindow(date_filter, dt)
        /\ dt = NoTime => contained.value
        /\ (date_filter.since = NoDate /\ date_filter.until = NoDate) => contained.value
        /\ \A t1, t3 \in Times :
             ( /\ dt # NoTime /\ t1 <= dt /\ dt <= t3
               /\ Contains(date_filter, t1) /\ Contains(date_filter, t3) )
             => contained.value

\* C24 witness: a filter with both bounds has accepted a timestamp, and it
\* rejects an earlier one.
C24_Witness ==
    /\ contained.status = "returned" /\ contained.value
    /\ date_filter.since # NoDate /\ date_filter.until # NoDate /\ dt # NoTime
    /\ \E t1 \in Times : t1 < dt /\ ~Contains(date_filter, t1)

\* C25: in both backends a merged pull request with a merging actor yields
\* exactly one merged event attributed to that actor, dated at the merge
\* timestamp when it is present and at the close timestamp when it is not.
C25_MergedEvent ==
    \A r \in {typed_result, gh_result} :
        (r.raised = "none" /\ pr.state = "closed" /\ pr.merged /\ pr.merged_by # NoUser) =>
            /\ CountType(r.events, "merged") = 1
            /\ Occurrences(r.events,
                   Event("merged",
                         IsoFormat(IF pr.merged_at # NoTime THEN pr.merged_at
                                   ELSE pr.closed_at),
                         pr.merged_by)) = 1

\* the closed event C26 expects
C26_Closed(p) ==
    Event("closed", IsoFormat(p.closed_at), IF p.author # NoUser THEN p.author ELSE "unknown")

\* C26: in both backends a pull request closed without merge that has a close
\* timestamp yields exactly one closed event at that timestamp, attributed to
\* the author's login when there is an author and to "unknown" when there is
\* none; a closed pull request without author and activity is kept by the
\* pipeline with that single event.
C26_ClosedEvent ==
    \A r \in {typed_result, gh_result} :
        ( /\ r.raised = "none"
          /\ pr.state = "closed" /\ ~pr.merged /\ pr.closed_at # NoTime ) =>
            /\ CountType(r.events, "closed") = 1
            /\ Occurrences(r.events, C26_Closed(pr)) = 1
            /\ ( /\ pr.author = NoUser /\ pr.review_comments = << >>
                 /\ pr.issue_comments = << >> /\ pr.reviews = << >> )
               => /\ r.events = << C26_Closed(pr) >>
                  /\ HasEvents([number |-> pr.number, events |-> r.events])

\* C26 witness: both backends returned the single closed event, by "unknown",
\* of a pull request closed without merge that has no author.
C26_Witness ==
    /\ BothReturned
    /\ pr.state = "closed" /\ ~pr.merged /\ pr.author = NoUser
    /\ typed_result.events = << Event("closed", IsoFormat(pr.closed_at), "unknown") >>
    /\ gh_result.events = typed_result.events

\* C27: when the organization cannot be resolved or accessed, the pipeline
\* yields no repository and raises its fatal error (FetchError typed,
\* GhCliError CLI) on the first step of the enumeration; main then writes the
\* report with an empty repositories map and exits with code 1.
C27_OrgNotFoundFatal ==
    (org_error # "none" /\ pc = "exited") =>
        /\ yielded = << >> /\ pos = 0
        /\ caller = "list" =>
             exit = Exit(1, IF backend = "typed" THEN "FetchError" ELSE "GhCliError")
        /\ caller = "main" =>
             /\ exit = Exit(1, "none")
             /\ file.written /\ file.repositories = << >>

\* C28: every write of the report file carries a generated_at taken at that
\* write, the write on a fatal fetch error included.
C28_GeneratedAtRefreshed ==
    \A i \in DOMAIN saved : saved[i].generated_at = saved[i].at

\* an option is given on the command line
Given(value) ==
    value # None

\* only some of --app-id, --private-key and --installation-id are given
PartialAppCredentials(o) ==
    /\ Given(o.app_id) \/ Given(o.private_key) \/ Given(o.installation_id)
    /\ ~(Given(o.app_id) /\ Given(o.private_key) /\ Given(o.installation_id))

\* C29: whenever only some of app-id, private-key and installation-id are
\* given, whichever the backend, main exits with a non-zero code before any
\* authentication or transport call and before any write of the report.
C29_PartialAppCredentialsRejected ==
    (PartialAppCredentials(options) /\ pc # "credentials") =>
        /\ pc = "exited" /\ exit.code > 0
        /\ network = << >>
        /\ file = NoFile

\* C30: once the interrupt flag is set the pipeline starts no listing of pull
\* requests and no fetch of events for any repository other than the one in
\* flight when the flag was set, also when the following repositories have no
\* qualifying pull request.
C30_InterruptStopsPipeline ==
    (caller = "main" /\ interrupted /\ pos > signal.pos + 1) => outcome.calls = NoCalls

\* C31: repositories are handled strictly one after another: with no
\* interrupt pending, the result of every yielded repository is in the output
\* file before the pipeline makes a transport call for the next repository,
\* and transport calls are only made in the iteration of one repository.
C31_Sequential ==
    [][ /\ ( /\ caller = "main" /\ ~interrupted
             /\ pos' = pos + 1 /\ outcome'.calls # NoCalls ) =>
               \A i \in DOMAIN yielded :
                  /\ file.written
                  /\ yielded[i][1] \in DOMAIN file.repositories
                  /\ file.repositories[yielded[i][1]] = yielded[i][2]
        /\ outcome' # outcome => (pos' = pos + 1 /\ repo'.name = pos') ]_vars

\* C31 witness: main has written the first repository and the pipeline has
\* then listed the pull requests of the second.
C31_Witness ==
    /\ caller = "main" /\ ~interrupted
    /\ pos = 2 /\ repo.name = 2 /\ outcome.calls.listings = 1
    /\ Len(yielded) >= 1 /\ yielded[1][1] = 1
    /\ file.written /\ 1 \in DOMAIN file.repositories

\* C35: in the typed backend each upstream review comment, issue comment and
\* review contributes at most one comment event to the event list of a pull
\* request, also when a rate-limit exception interrupts the iteration of a
\* source after some of its items were turned into events and the retry loop
\* reads the source again from the start.
C35_OneCommentEventPerItem ==
    typed_run.status = "returned" =>
        CountType(typed_result.events, "comment") <=
            Len(pr.review_comments) + Len(pr.issue_comments)
            + Cardinality({i \in DOMAIN pr.reviews : pr.reviews[i].body})

\* C36: in both backends every event list holds at most one created event and
\* at most one terminal event (merged or closed, never both), and a closed
\* event is emitted only for a pull request closed without being merged: a
\* merged pull request never yields a closed event, also when its merging
\* actor is missing.
C36_OneCreatedOneTerminal ==
    \A result \in {typed_result, gh_result} :
        /\ CountType(result.events, "created") <= 1
        /\ CountType(result.events, "merged") + CountType(result.events, "closed") <= 1
        /\ CountType(result.events, "closed") > 0 =>
              (pr.state = "closed" /\ ~pr.merged)

\* C37: whenever main ends a run normally (exit code 0), the output file has
\* been written during this run and holds the final report, also when the
\* pipeline yielded no repository at all.
C37_NormalEndSavesReport ==
    (caller = "main" /\ pc = "exited" /\ exit = Exit(0, "none")) =>
        /\ saved # << >>
        /\ file.written /\ file.repositories = report

\* the events of a list that carry the date d, in the order of the list
WithDate(events, d) ==
    LET Same(e) == e.date = d
    IN  SelectSeq(events, Same)

DatesOf(events) ==
    {events[i].date : i \in DOMAIN events}

\* C33: the sort of the events of a pull request is stable: events with
\* equal dates keep their discovery order (created, review comments, issue
\* comments, reviews, merged or closed); in the CLI backend the approved or
\* changes_requested event of a review comes before the comment event made
\* from the body of the same review.
C33_StableSort ==
    /\ typed_result.raised = "none" =>
          LET discovered == DiscoveredEvents(pr, date_filter)
          IN  \A d \in DatesOf(discovered) :
                 WithDate(typed_result.events, d) = WithDate(discovered, d)
    /\ gh_result.raised = "none" =>
          LET discovered == DiscoveredEventsGh(pr, date_filter, "none")
          IN  /\ \A d \in DatesOf(discovered) :
                    WithDate(gh_result.events, d) = WithDate(discovered, d)
              /\ \A k \in DOMAIN pr.reviews :
                    LET both == ReviewEventsGh(date_filter, GhReview(pr.reviews[k]))
                    IN  Len(both) = 2 =>
                           \E i, j \in DOMAIN gh_result.events :
                              /\ i < j
                              /\ gh_result.events[i] = both[1]
                              /\ gh_result.events[j] = both[2]

\* C33 witness: the CLI backend returned the approved or changes_requested
\* event of a review next to the comment event of its body, after another
\* event of the same date that was discovered earlier.
C33_Witness ==
    /\ gh_result.raised = "none"
    /\ \E i \in DOMAIN gh_result.events :
         /\ i + 2 \in DOMAIN gh_result.events
         /\ gh_result.events[i].type \in {"created", "comment"}
         /\ gh_result.events[i + 1].type \in {"approved", "changes_requested"}
         /\ gh_result.events[i + 2].type = "comment"
         /\ gh_result.events[i].date = gh_result.events[i + 1].date
         /\ gh_result.events[i + 1].date = gh_result.events[i + 2].date
         /\ gh_result.events[i + 1].person = gh_result.events[i + 2].person

\* what the listing of the last repository does with its i-th pull request
StepOf(i) ==
    IF backend = "gh" THEN RepoPrsStepGh(date_filter, GhPr(repo.pulls[i].pr))
    ELSE RepoPrsStep(date_filter, repo.pulls[i].pr)

\* the record of the i-th pull request of the last repository
RecordOf(i) ==
    IF backend = "gh"
    THEN FetchPrRecordGh(repo.pulls[i].pr, date_filter, repo.pulls[i].fault)
    ELSE FetchPrRecord(repo.pulls[i].pr, date_filter, repo.pulls[i].fault)

\* the listing of the last repository hands over its i-th pull request
Taken(i) ==
    /\ StepOf(i) = "yield"
    /\ backend = "typed" =>
          /\ \A k \in 1..i : StepOf(k) # "break"
          /\ repo.list_fault = NoFault \/ repo.list_fault >= i

\* an exception ends the processing of the last repository
ErrorMet ==
    \/ backend = "gh" /\ repo.list_fault # NoFault
    \/ /\ backend = "typed"
       /\ repo.list_fault \in 0..Len(repo.pulls)
       /\ \A k \in 1..repo.list_fault : StepOf(k) # "break"
    \/ \E i \in DOMAIN repo.pulls : Taken(i) /\ RecordOf(i).raised # "none"

\* the pull requests of the last repository that are handed over and have
\* events
QualifyingPrs ==
    {i \in DOMAIN repo.pulls : Taken(i) /\ HasEvents(RecordOf(i))}

\* C38: a repository is yielded whole or not at all.  When an error ends the
\* processing of a repository, also after some of its records were built,
\* nothing of it is yielded, reported or written; a yielded repository holds
\* the records of all its qualifying pull requests, and every entry of the
\* report and of the file is a yielded pair.
C38_WholeOrNothing ==
    /\ (pos > 0 /\ Passed /\ ErrorMet) =>
          /\ outcome.kind \in {"error", "raise"} /\ outcome.prs = << >>
          /\ \A i \in DOMAIN yielded : yielded[i][1] # repo.name
          /\ repo.name \notin DOMAIN report
          /\ repo.name \notin DOMAIN file.repositories
    /\ outcome.kind = "yield" =>
          /\ Len(outcome.prs) = Cardinality(QualifyingPrs)
          /\ \A i \in QualifyingPrs :
                \E j \in DOMAIN outcome.prs : outcome.prs[j] = PRRecord(RecordOf(i))
          /\ yielded[Len(yielded)] = << repo.name, outcome.prs >>
    /\ \A n \in DOMAIN report :
          \E i \in DOMAIN yielded : yielded[i] = << n, report[n] >>
    /\ \A n \in DOMAIN file.repositories :
          \E i \in DOMAIN yielded : yielded[i] = << n, file.repositories[n] >>

\* C38 witness: the typed pipeline built the record of the first pull
\* request of a repository, the events of the second could not be fetched,
\* and the repository was skipped.
C38_Witness ==
    /\ backend = "typed" /\ pos > 0
    /\ Len(repo.pulls) >= 2
    /\ Taken(1) /\ HasEvents(RecordOf(1))
    /\ Taken(2) /\ RecordOf(2).raised # "none"
    /\ outcome.kind = "error"

\* the write is the one main makes when a fatal error leaves the pipeline
FatalWrite(i) ==
    i = Len(saved) /\ pc = "exited" /\ exit = Exit(1, "none")

\* C39: the written reports only grow.  Across the successive writes of the
\* output file in one run (repositories have distinct names), every
\* repository of an earlier write is in every later write with the same
\* list of pull requests, every write made for a yielded repository holds
\* one repository more than the write before it, and the organization and
\* date_range fields never change.
C39_ReportsOnlyGrow ==
    /\ \A i, j \in DOMAIN saved :
          i < j =>
             /\ \A n \in DOMAIN saved[i].repositories :
                   /\ n \in DOMAIN saved[j].repositories
                   /\ saved[j].repositories[n] = saved[i].repositories[n]
             /\ saved[j].organization = saved[i].organization
             /\ saved[j].date_range = saved[i].date_range
    /\ \A i \in DOMAIN saved :
          Cardinality(DOMAIN saved[i].repositories) =
             IF FatalWrite(i) THEN i - 1 ELSE i
    /\ Len(saved) = IF FatalWrite(Len(saved)) THEN Cardinality(DOMAIN report) + 1
                    ELSE Cardinality(DOMAIN report)

\* C39 witness: the file was written three times, the second write holding
\* the repository of the first and one more.
C39_Witness ==
    /\ caller = "main" /\ Len(saved) = 3
    /\ Cardinality(DOMAIN saved[1].repositories) = 1
    /\ Cardinality(DOMAIN saved[2].repositories) = 2
    /\ date_filter.since # NoDate

\* the upstream list is ordered newest-created-first
NewestFirst ==
    \A i, j \in DOMAIN pulls : i < j => pulls[i].created >= pulls[j].created

\* the pull requests a listing has yielded, in the order of the yields
YieldedPulls(listing) ==
    [k \in DOMAIN listing.yielded |-> pulls[listing.yielded[k]]]

\* the pull requests of the upstream list created inside the window
CreatedInWindow ==
    LET Inside(p) == InWindow(date_filter, p.created)
    IN  SelectSeq(pulls, Inside)

\* those, and the ones `gh pr list` gives no creation date for
CreatedInWindowOrUndated ==
    LET Inside(p) == ~p.has_createdAt \/ InWindow(date_filter, p.created)
    IN  SelectSeq(pulls, Inside)

\* C32: for every upstream list ordered newest-created-first and every
\* window, fetch_repo_prs and fetch_repo_prs_gh yield, in upstream order,
\* exactly the pull requests whose creation date d satisfies (since absent or
\* d >= since) and (until absent or d <= until); fetch_repo_prs_gh yields
\* also every pull request that has no creation date.
C32_YieldsTheWindow ==
    NewestFirst =>
        /\ typed_listing.done => YieldedPulls(typed_listing) = CreatedInWindow
        /\ gh_listing.done => YieldedPulls(gh_listing) = CreatedInWindowOrUndated

\* C32 witness: on a list ordered newest first, both generators have ended;
\* the typed one skipped a pull request created after until, yielded one and
\* stopped before the end of the list; the CLI one yielded a pull request
\* without creation date that upstream created outside the window.
C32_Witness ==
    /\ NewestFirst
    /\ typed_listing.done /\ gh_listing.done
    /\ typed_listing.pos < Len(pulls)
    /\ typed_listing.yielded # << >>
    /\ AfterUntil(1)
    /\ \E i \in YieldedSet(gh_listing) :
          ~pulls[i].has_createdAt /\ ~InWindow(date_filter, pulls[i].created)

\* the reads fetch_pr_events has made of one source
ReadsOf(source) ==
    Cardinality({i \in DOMAIN typed_run.calls : typed_run.calls[i] = source})

\* a run of main has not ended, or a retry loop has not
Running ==
    \/ caller = "main" /\ pc # "exited"
    \/ gh_run.status = "running"
    \/ typed_run.status = "running"

\* C34: retries are bounded and the run terminates.  In both backends a
\* rate-limited transport call is attempted max_retries times at most (the gh
\* command of _run_gh_command, each source of fetch_pr_events), every retry
\* loop comes to an end, and for a finite organization and any pattern of
\* failures a run of main eventually ends, with exit code 0, 1 or 130.
C34_BoundedRetriesAndTermination ==
    /\ [](gh_run.calls <= gh_run.max_retries)
    /\ [](\A i \in DOMAIN Sources : ReadsOf(Sources[i]) <= max_retries)
    /\ Running ~> ~Running
    /\ []((caller = "main" /\ pc = "exited") => exit.code \in {0, 1, 130})

\* C34 witness: main has ended with exit code 0 after the listing of a
\* repository was rate-limited at every attempt and a later repository was
\* persisted.
C34_Witness ==
    /\ caller = "main" /\ pc = "exited" /\ exit.code = 0
    /\ exhausted /\ errors # {}
    /\ file.written /\ pos = MaxRepos

====
